---- MODULE Spec2Model ----
(***************************************************************************)
(* A model of the in17clock firmware (F33RNI/in17clock): the debounced     *)
(* button sampler (buttons.cpp), the nixie multiplexer (digits.cpp), the   *)
(* soft-started boost converter (power.cpp), the tone engine (buzzer.cpp)  *)
(* and the orchestration layer (main.cpp): modes, alarm, editing, wave.    *)
(*                                                                         *)
(* The firmware is one main loop plus interrupt handlers.  Every component *)
(* has its own specification (SpecButtons, SpecWrite, SpecDigits, SpecIrq, *)
(* SpecPower, SpecPid, SpecBuzzer, SpecChime, SpecFrequency, SpecVoltage,  *)
(* SpecMain, SpecEdit, SpecBoot, SpecWave); the variables of the other     *)
(* components keep their initial values there.                             *)
(***************************************************************************)
EXTENDS Integers, Sequences, FiniteSets, TLC

VARIABLES
    \* ---- buttons.cpp / buttons.h ----
    port,        \* level of each input pin (1 = high = released, pull-up)
    pcif,        \* pending pin-change interrupt flag of each PCINT bank
    btn,         \* volatile boolean up, down, weather, set, alarm (raw level)
    btn_state,   \* uint16_t up_state, ... (debounce history)
    btn_last,    \* boolean up_last, ... (stabilized output)
    pin_changes, \* number of level changes the pins have made so far
    watch,       \* the input whose polls are counted in run
    run,         \* number of consecutive polls of watch with the same raw level
    run_val,     \* that raw level
    \* ---- build configuration (pins.h) ----
    NUMBERS_INVERTED,         \* #define NUMBERS_INVERTED is present
    SEPARATOR_INVERTED,       \* #define SEPARATOR_INVERTED is present
    \* ---- digits.cpp / digits.h ----
    current_numbers,          \* volatile uint8_t current_numbers[4]
    current_separator_state,  \* volatile boolean current_separator_state
    digit_counter,            \* volatile uint8_t digit_counter
    spi_sent,                 \* the two bytes of the latest SPI transfer, in order
    latch_pin,                \* level of PIN_LATCH
    written,                  \* anode arguments of the latest (at most 4) write() calls
    w_number,                 \* number argument of the latest write() call
    w_separator,              \* separator argument of the latest write() call
    call,                     \* the latest operation of the display driver
    \* ---- the main loop against the interrupt handlers ----
    pc,                       \* where the main loop is inside a getter or Digits::set
    sreg_i,                   \* global interrupt enable (the I bit of SREG)
    name_,                    \* the getter's local copy up_, down_, ...
    set_args,                 \* the arguments of the Digits::set call in progress
    calls,                    \* number of calls the main loop has started
    \* ---- power.cpp / power.h ----
    millis_now,               \* the value millis() returns
    time_started,             \* uint64_t time_started
    setpoint,                 \* uint8_t setpoint (target, volts)
    setpoint_temp,            \* uint8_t setpoint_temp (effective setpoint, volts)
    since_first,              \* ms since the first regulate() call, -1 before it
    voltage,                  \* float voltage (measured output, volts)
    pid,                      \* PetalPID pid (integral term, error, output)
    ocr1a,                    \* OCR1A, the compare register of the converter PWM
    setpoint_used,            \* the target the latest regulate() call read, 0 before
    voltage_arg,              \* the argument of the latest set_voltage() call
    \* ---- buzzer.cpp / buzzer.h ----
    note_last,                \* uint8_t note_last
    attack_pwm_value,         \* uint8_t attack_pwm_value
    decay_timer,              \* uint64_t decay_timer
    prescaler_bits,           \* uint8_t prescaler_bits
    tccr2b,                   \* TCCR2B (waveform mode and clock select)
    ocr2a,                    \* OCR2A, the TOP value of timer 2 (frequency)
    ocr2b,                    \* OCR2B, the compare register of the buzzer PWM
    duty,                     \* argument of the latest set_duty_cycle() call
    bz_call,                  \* the latest operation of the tone engine: its name,
                              \* the arguments of play_note, whether it called
                              \* set_frequency and set_duty_cycle, and the ms
                              \* since the latest play_note call (-1 before it)
    bz_calls,                 \* number of operations of the tone engine so far
    chime_timer,              \* uint64_t chime_timer
    chime_note_duration,      \* uint16_t chime_note_duration (ms between chime notes)
    note_duration_divider,    \* uint8_t note_duration_divider
    note_counter,             \* uint8_t note_counter
    chime_call,               \* the latest play_chime call: what its test read, whether
                              \* it emitted a note and with which velocity, whether it
                              \* drew a divider, and the ms since the previous chime note
    chime_calls,              \* number of play_chime calls so far
    since_note,               \* ms since the latest chime note, -1 before the first
    notes_since_roll,         \* chime notes emitted since the latest draw of a divider
    rolls,                    \* number of draws of a divider so far
    \* ---- main.cpp ----
    mode,                     \* uint8_t mode
    eeprom_voltage,           \* EEPROM byte 4 (the stored converter setpoint)
    set_last,                 \* boolean set_last
    alarm_active,             \* boolean alarm_active
    alarm_hours,              \* uint8_t alarm_hours
    alarm_minutes,            \* uint8_t alarm_minutes
    alarm_disabled_hours,     \* uint8_t alarm_disabled_hours
    alarm_disabled_minutes,   \* uint8_t alarm_disabled_minutes
    alarm_preview_timer,      \* uint64_t alarm_preview_timer
    set_hours,                \* uint8_t set_hours
    set_minutes,              \* uint8_t set_minutes
    btn_timer,                \* uint64_t btn_timer
    inc_dec_timer,            \* uint64_t inc_dec_timer
    inc_dec_delay,            \* uint16_t inc_dec_delay
    eeprom_alarm_hours,       \* EEPROM byte 5
    eeprom_alarm_minutes,     \* EEPROM byte 6
    eeprom_alarm_off,         \* EEPROM byte 7 (!alarm_active)
    rtc_interrupt,            \* volatile boolean interrupt of RTC (the 1 Hz pulse flag)
    rtc_hours,                \* what rtc.get_hours() returns
    rtc_minutes,              \* what rtc.get_minutes() returns
    loop_pc,                  \* where loop() is: before line 109 or before line 120
    sqw_interrupt,            \* boolean sqw_interrupt of loop()
    loops,                    \* number of loop() iterations started
    loop_call,                \* the latest part of loop() that ran: the mode it found,
                              \* the debounced inputs it polled, whether it read the
                              \* RTC, called play_chime, took the SET branch
    set_steps,                \* SET branches taken during the present press of SET
    set_seen,                 \* how SET was last seen: "none" before the first SET
                              \* branch, then "held", "released" once polled released
    dismissed,                \* <<hour, minute>> at which the alarm was dismissed, while
                              \* the RTC has shown no other time and the alarm time was
                              \* not edited since; <<>> otherwise
    held,                     \* ms since inc_dec last found UP and DOWN released or
                              \* mode_clock entered voltage mode (up to MaxHeld;
                              \* followed in SpecEdit)
    rtc_seconds,              \* what rtc.get_seconds() returns
    wave_started,             \* boolean wave_started
    wave_counter,             \* uint8_t wave_counter
    wave_positions,           \* uint8_t wave_positions[4]
    wave_timer,               \* uint64_t wave_timer
    separator_timer,          \* uint64_t separator_timer
    wave_since,               \* ms since the latest update of the wave positions (up
                              \* to MaxWaveGap, which it is before the first update)
    uptime,                   \* ms since setup() returned
    wave_call                 \* what the latest mode_clock call did to the wave: whether
                              \* it updated the positions, how long after the update
                              \* before, whether it ended or started a wave, and the
                              \* digits the wave started from

btn_vars == <<port, pcif, btn, btn_state, btn_last, pin_changes, watch, run, run_val>>
cfg_vars == <<NUMBERS_INVERTED, SEPARATOR_INVERTED>>
frame_vars == <<current_numbers, current_separator_state>>
hw_vars == <<spi_sent, latch_pin, written, w_number, w_separator>>
dig_vars == <<cfg_vars, frame_vars, digit_counter, hw_vars, call>>
irq_vars == <<pc, sreg_i, name_, set_args, calls>>
reg_vars == <<voltage, pid, ocr1a, setpoint_used>>
pwr_vars == <<millis_now, time_started, setpoint, setpoint_temp, since_first, reg_vars, voltage_arg>>
timer2_vars == <<prescaler_bits, tccr2b, ocr2a>>
chime_state == <<chime_timer, chime_note_duration, note_duration_divider, note_counter>>
chime_vars == <<chime_state, chime_call, chime_calls, since_note, notes_since_roll, rolls>>
bz_vars == <<note_last, attack_pwm_value, decay_timer, timer2_vars, ocr2b, duty, bz_call, bz_calls,
             chime_vars>>
alarm_vars == <<alarm_active, alarm_hours, alarm_minutes, alarm_disabled_hours,
                alarm_disabled_minutes, alarm_preview_timer>>
edit_vars == <<set_last, set_hours, set_minutes, btn_timer, inc_dec_timer, inc_dec_delay>>
eeprom_alarm_vars == <<eeprom_alarm_hours, eeprom_alarm_minutes, eeprom_alarm_off>>
rtc_vars == <<rtc_interrupt, rtc_hours, rtc_minutes>>
wave_vars == <<rtc_seconds, wave_started, wave_counter, wave_positions, wave_timer,
               separator_timer, wave_since, uptime, wave_call>>
loop_vars == <<alarm_vars, edit_vars, eeprom_alarm_vars, rtc_vars, loop_pc, sqw_interrupt,
               loops, loop_call, set_steps, set_seen, dismissed, held, wave_vars>>
main_vars == <<mode, eeprom_voltage, loop_vars>>
vars == <<btn_vars, dig_vars, irq_vars, pwr_vars, bz_vars, main_vars>>

(***************************************************************************)
(* Bounds of the model.                                                    *)
(***************************************************************************)
\* Level changes of the input pins in one behaviour (a pin held at boot counts).
MaxPinChanges == 2

\* Calls (getters, set, set_separator) the main loop makes in SpecIrq.
MaxCalls == 2

\* Level changes of the input pins in SpecIrq.
MaxIrqPinChanges == 1

\* millis() is a uint32_t and wraps at 2^32 ms; the model's clock wraps at
\* MillisModulus ms instead, which keeps the wrap within reach.
MillisModulus == 4096

\* The converter is followed for this many ms after the first regulate() call.
MaxUptime == 5200

\* Operations (play_note, decay) of the tone engine in one behaviour.
MaxBuzzerCalls == 5

\* Iterations of loop() in one behaviour.
MaxLoops == 3

\* The time UP or DOWN is held is followed up to this many ms.
MaxHeld == 2500

\* loop() iterations in one behaviour while a value is edited.
MaxEditLoops == 6

\* Iterations of loop() followed after a boot with the alarm restored.
MaxBootLoops == 17

\* The range of low frequencies requested of set_frequency, Hz.
MinHz == 20
MaxHz == 140

\* Iterations of loop() followed while the wave runs.
MaxWaveLoops == 28

\* Cap of wave_since, ms.
MaxWaveGap == 200

\* play_chime calls in one behaviour.
MaxChimeCalls == 11

\* The time since the latest chime note is followed up to this many ms.
MaxSilence == 700

(***************************************************************************)
(* Buttons                                                                 *)
(***************************************************************************)
Inputs == {"up", "down", "weather", "set", "alarm"}

\* pins.h: the Arduino pin number of each input (A1 = 15, A2 = 16, A3 = 17).
PIN_BTN_UP == 5
PIN_BTN_DOWN == 17
PIN_BTN_WEATHER == 16
PIN_BTN_SET == 6
PIN_SW_ALARM == 15

PinOf(i) ==
    CASE i = "up" -> PIN_BTN_UP
      [] i = "down" -> PIN_BTN_DOWN
      [] i = "weather" -> PIN_BTN_WEATHER
      [] i = "set" -> PIN_BTN_SET
      [] i = "alarm" -> PIN_SW_ALARM

\* The PCINT bank of a pin of the ATmega328P: D0..D7 -> 2, D8..D13 -> 0, A0..A5 -> 1.
digitalPinToPCICRbit(p) == IF p <= 7 THEN 2 ELSE IF p <= 13 THEN 0 ELSE 1

Banks == {0, 1, 2}

\* read(255) reads every input.
READ_ALL == 255

\* uint16_t name_state after "name_state <<= 1; name_state |= name & 0x01".
ShiftInTooWide(state, name) == (2 * state + (IF name THEN 1 ELSE 0)) % 131072

ShiftIn(state, name) == (2 * state + (IF name THEN 1 ELSE 0)) % 65536

\* name_last after "name_state == 0xFFFF ? true : !name_state ? false : name_last".
VoteShortHistory(state, name_last) ==
    IF state % 32768 = 32767 THEN TRUE ELSE IF state % 32768 = 0 THEN FALSE ELSE name_last

Vote(state, name_last) ==
    IF state = 65535 THEN TRUE ELSE IF state = 0 THEN FALSE ELSE name_last

\* Buttons::read: the raw levels after the handler of bank pcicr_bit ran.
ReadIgnoringBank(pcicr_bit) ==
    [i \in Inputs |-> (port[i] = 0)]

Read(pcicr_bit) ==
    [i \in Inputs |->
        IF digitalPinToPCICRbit(PinOf(i)) = pcicr_bit \/ pcicr_bit = READ_ALL
        THEN (port[i] = 0)
        ELSE btn[i]]

\* Buttons::init: every history is 0, every output false, read(255U) has run.
ButtonsInit ==
    /\ port \in [Inputs -> {0, 1}]
    /\ Cardinality({i \in Inputs : port[i] = 0}) <= MaxPinChanges
    /\ pin_changes = Cardinality({i \in Inputs : port[i] = 0})
    /\ pcif = [b \in Banks |-> FALSE]
    /\ btn = [i \in Inputs |-> (port[i] = 0)]
    /\ btn_state = [i \in Inputs |-> 0]
    /\ btn_last = [i \in Inputs |-> FALSE]
    /\ watch \in Inputs
    /\ run = 0
    /\ run_val = FALSE

\* A button or the switch changes level: the bank's interrupt flag is raised.
PinChange(i) ==
    /\ pin_changes < MaxPinChanges
    /\ pin_changes' = pin_changes + 1
    /\ port' = [port EXCEPT ![i] = 1 - port[i]]
    /\ pcif' = [pcif EXCEPT ![digitalPinToPCICRbit(PinOf(i))] = TRUE]
    /\ UNCHANGED <<btn, btn_state, btn_last, watch, run, run_val>>
    /\ UNCHANGED <<dig_vars, irq_vars, pwr_vars, bz_vars, main_vars>>

\* ISR(PCINTn_vect) -> Buttons::_isr(n) -> buttons.read(n).
PcintIsr(b) ==
    /\ pcif[b]
    /\ pcif' = [pcif EXCEPT ![b] = FALSE]
    /\ btn' = Read(b)
    /\ UNCHANGED <<port, btn_state, btn_last, pin_changes, watch, run, run_val>>
    /\ UNCHANGED <<dig_vars, irq_vars, pwr_vars, bz_vars, main_vars>>

\* get_up / get_down / get_weather / get_set / get_alarm: the raw level is
\* copied inside ATOMIC_BLOCK, then DEBOUNCING_RETURN shifts and votes.
Get(i) ==
    LET up_ == btn[i]
        st == ShiftIn(btn_state[i], up_)
        la == Vote(st, btn_last[i])
    IN  /\ btn_state' = [btn_state EXCEPT ![i] = st]
        /\ btn_last' = [btn_last EXCEPT ![i] = la]
        /\ IF i = watch
           THEN /\ run' = IF run > 0 /\ run_val = up_
                          THEN (IF run < 16 THEN run + 1 ELSE 16)
                          ELSE 1
                /\ run_val' = up_
           ELSE UNCHANGED <<run, run_val>>
        /\ UNCHANGED <<port, pcif, btn, pin_changes, watch>>
        /\ UNCHANGED <<dig_vars, irq_vars, pwr_vars, bz_vars, main_vars>>

(***************************************************************************)
(* Digits                                                                  *)
(***************************************************************************)
\* digits.h: number of nixies.
DIGITS_NUM == 4

\* digits.h: the default argument of Digits::set (tube off).
DIGIT_OFF == 255

\* pins.h: #define ANODES_INVERTED.  The other branch of Digits::write names
\* anodes_num, which is declared nowhere, so only this configuration builds.
ANODES_INVERTED == TRUE

\* pins.h: 0b0010000000000000, 0b0000100000000000, 0b0000000010000000, 0b0000000000000100
PINS_ANODES == <<8192, 2048, 128, 4>>

\* pins.h: the cathode bit of the numbers 0..9.
PINS_NUMBERS == <<16384, 1, 32768, 4096, 1024, 512, 64, 8, 32, 2>>

\* pins.h: 0b0000000000010000
PIN_SEPARATOR == 16

\* A uint16_t as the set of its one bits, and back.
Bits(n) == {b \in 0..15 : (n \div (2 ^ b)) % 2 = 1}

Num(S) ==
    LET f[b \in 0..16] == IF b = 16 THEN 0 ELSE (IF b \in S THEN 2 ^ b ELSE 0) + f[b + 1]
    IN  f[0]

\* a | b and a & ~b on uint16_t.
Or(a, b) == Num(Bits(a) \cup Bits(b))
AndNot(a, b) == Num(Bits(a) \ Bits(b))

\* Digits::write, "Calculate which anodes to activate" (#ifdef ANODES_INVERTED).
AnodeMaskActiveHigh(anode) ==
    IF anode < DIGITS_NUM THEN PINS_ANODES[anode + 1] ELSE 0

AnodeMask(anode) ==
    LET all == Or(Or(PINS_ANODES[1], PINS_ANODES[2]), Or(PINS_ANODES[3], PINS_ANODES[4]))
    IN  IF anode < DIGITS_NUM THEN AndNot(all, PINS_ANODES[anode + 1]) ELSE all

\* Digits::write, "Calculate which numbers (cathodes) to activate".
AllNumbers ==
    LET f[k \in 0..10] == IF k = 10 THEN 0 ELSE Or(PINS_NUMBERS[k + 1], f[k + 1])
    IN  f[0]

NumbersMaskNoBlank(number) ==
    IF NUMBERS_INVERTED
    THEN AndNot(AllNumbers, PINS_NUMBERS[(number % 10) + 1])
    ELSE PINS_NUMBERS[(number % 10) + 1]

NumbersMask(number) ==
    IF NUMBERS_INVERTED
    THEN (IF number < 10 THEN AndNot(AllNumbers, PINS_NUMBERS[number + 1]) ELSE AllNumbers)
    ELSE (IF number < 10 THEN PINS_NUMBERS[number + 1] ELSE 0)

\* Digits::write, "Add separator": the #ifdef SEPARATOR_INVERTED branch and
\* then the unconditional branch.
AddSeparator(mask, separator) ==
    LET m1 == IF SEPARATOR_INVERTED
              THEN (IF separator THEN AndNot(mask, PIN_SEPARATOR) ELSE Or(mask, PIN_SEPARATOR))
              ELSE mask
    IN  IF separator THEN Or(m1, PIN_SEPARATOR) ELSE AndNot(m1, PIN_SEPARATOR)

\* Digits::write: the final mask.
WriteMask(anode, number, separator) ==
    AddSeparator(Or(AnodeMask(anode), NumbersMask(number)), separator)

\* Digits::isr_callback_handler: digit_counter++ and the wrap to 0.
NextDigitCounterLateWrap(c) == IF c + 1 > DIGITS_NUM THEN 0 ELSE c + 1

NextDigitCounter(c) == IF (c + 1) % 256 = DIGITS_NUM THEN 0 ELSE (c + 1) % 256

\* Digits::set: the stored frame after set(digit_1, digit_2, digit_3, digit_4).
SetNumbersSwapped(digit_1, digit_2, digit_3, digit_4) ==
    [p \in 0..3 |-> <<digit_1, digit_2, digit_4, digit_3>>[p + 1]]

SetNumbers(digit_1, digit_2, digit_3, digit_4) ==
    [p \in 0..3 |-> <<digit_1, digit_2, digit_3, digit_4>>[p + 1]]

\* The values the orchestration layer passes to Digits::set in this model.
DigitChoices == {9, 10, DIGIT_OFF}

\* Digits::init: the globals are zero-initialised and set() has blanked the frame.
DigitsInit ==
    /\ current_numbers = SetNumbers(DIGIT_OFF, DIGIT_OFF, DIGIT_OFF, DIGIT_OFF)
    /\ current_separator_state = FALSE
    /\ digit_counter = 0
    /\ spi_sent = <<>>
    /\ latch_pin = 0
    /\ written = <<>>
    /\ w_number = 0
    /\ w_separator = FALSE
    /\ call = <<"init">>

ConfigInit ==
    /\ NUMBERS_INVERTED \in BOOLEAN
    /\ SEPARATOR_INVERTED \in BOOLEAN

ConfigShipped ==
    /\ NUMBERS_INVERTED = FALSE
    /\ SEPARATOR_INVERTED = FALSE

\* Digits::set
Set(digit_1, digit_2, digit_3, digit_4) ==
    /\ current_numbers' = SetNumbers(digit_1, digit_2, digit_3, digit_4)
    /\ call' = <<"set", <<digit_1, digit_2, digit_3, digit_4>>>>
    /\ UNCHANGED <<cfg_vars, current_separator_state, digit_counter, hw_vars>>
    /\ UNCHANGED <<btn_vars, irq_vars, pwr_vars, bz_vars, main_vars>>

\* Digits::set_separator
SetSeparator(state) ==
    /\ current_separator_state' = state
    /\ call' = <<"set_separator", state>>
    /\ UNCHANGED <<cfg_vars, current_numbers, digit_counter, hw_vars>>
    /\ UNCHANGED <<btn_vars, irq_vars, pwr_vars, bz_vars, main_vars>>

\* ISR(TIMER0_COMPA_vect) -> Digits::isr_callback_handler -> Digits::write:
\* the mask goes out low byte first, with the latch low during the transfer.
Tick ==
    LET anode == digit_counter
        number == current_numbers[digit_counter]
        mask == WriteMask(anode, number, current_separator_state)
    IN  /\ spi_sent' = <<mask % 256, (mask \div 256) % 256>>
        /\ latch_pin' = 1
        /\ written' = IF Len(written) < DIGITS_NUM
                      THEN Append(written, anode)
                      ELSE Append(Tail(written), anode)
        /\ w_number' = number
        /\ w_separator' = current_separator_state
        /\ digit_counter' = NextDigitCounter(digit_counter)
        /\ call' = <<"tick">>
        /\ UNCHANGED <<cfg_vars, frame_vars>>
        /\ UNCHANGED <<btn_vars, irq_vars, pwr_vars, bz_vars, main_vars>>

\* The inputs are untouched while the display driver is examined.
ButtonsIdle ==
    /\ port = [i \in Inputs |-> 1]
    /\ pin_changes = 0
    /\ pcif = [b \in Banks |-> FALSE]
    /\ btn = [i \in Inputs |-> FALSE]
    /\ btn_state = [i \in Inputs |-> 0]
    /\ btn_last = [i \in Inputs |-> FALSE]
    /\ watch = "up"
    /\ run = 0
    /\ run_val = FALSE

(***************************************************************************)
(* float: IEEE-754 binary32, round to nearest even.  A positive value is   *)
(* [m, e] = m * 2^e with 2^23 <= m < 2^24; zero is [m |-> 0, e |-> 0].      *)
(***************************************************************************)
F32Zero == [m |-> 0, e |-> 0]

RECURSIVE F32Norm(_, _)
F32Norm(m, e) ==
    IF m = 0 THEN F32Zero
    ELSE IF m < 8388608 THEN F32Norm(2 * m, e - 1)
    ELSE [m |-> m, e |-> e]

\* (float) n for an integer 0 <= n < 2^24 (exact).
F32FromInt(n) == F32Norm(n, 0)

\* The 24-bit mantissa m followed by a guard bit and a sticky bit, rounded.
F32Round(m, guard, sticky, e) ==
    LET up == guard /\ (sticky \/ m % 2 = 1)
        m2 == IF up THEN m + 1 ELSE m
    IN  IF m2 = 16777216 THEN [m |-> 8388608, e |-> e + 1] ELSE [m |-> m2, e |-> e]

\* Long division: <<q, r, k>> with q = floor(n * 2^k / d) >= 2^24, r the remainder.
RECURSIVE F32DivBits(_, _, _, _)
F32DivBits(q, r, d, k) ==
    IF q >= 16777216 THEN <<q, r, k>>
    ELSE IF 2 * r >= d THEN F32DivBits(2 * q + 1, 2 * r - d, d, k + 1)
    ELSE F32DivBits(2 * q, 2 * r, d, k + 1)

\* a / b (b # 0).
F32Div(a, b) ==
    IF a.m = 0 THEN F32Zero
    ELSE LET s == IF a.m >= b.m THEN F32DivBits(1, a.m - b.m, b.m, 0)
                  ELSE F32DivBits(0, a.m, b.m, 0)
         IN  F32Round(s[1] \div 2, s[1] % 2 = 1, s[2] # 0, a.e - b.e - s[3] + 1)

\* a * b.
F32Mul(a, b) ==
    IF a.m = 0 \/ b.m = 0 THEN F32Zero
    ELSE LET ah == a.m \div 4096
             al == a.m % 4096
             bh == b.m \div 4096
             bl == b.m % 4096
             mid == ah * bl + al * bh
             lo_raw == (mid % 4096) * 4096 + al * bl
             hi == ah * bh + (mid \div 4096) + (lo_raw \div 16777216)
             lo == lo_raw % 16777216
         IN  IF hi >= 8388608
             THEN F32Round(hi, lo >= 8388608, lo % 8388608 # 0, a.e + b.e + 24)
             ELSE F32Round(2 * hi + (lo \div 8388608), (lo % 8388608) >= 4194304,
                           lo % 4194304 # 0, a.e + b.e + 23)

\* (uint8_t) a for 0 <= a < 256: the fraction is discarded.
F32ToUint8(a) ==
    IF a.e >= 0 THEN (a.m * (2 ^ a.e)) % 256
    ELSE IF a.e < -24 THEN 0
    ELSE a.m \div (2 ^ (0 - a.e))

(***************************************************************************)
(* Power                                                                   *)
(***************************************************************************)
\* config.h
CONVERTER_SETPOINT_MIN == 140
CONVERTER_SETPOINT_MAX == 180
CONVERTER_SOFT_START_TIME == 1000

\* setup(): the value millis() can have at the first regulate() call
\* (Power::init alone waits delay(100UL)).
BootTimes == {100, 137}

\* ms between two regulate() calls of the main loop.
LoopTimes == {0, 20, 500}

\* ms between two regulate() calls where the feedback readings vary (after
\* three steps of 1000 ms and one of 1096 ms the model's clock is back at the
\* value it had at the first call).
PidTimes == {0, 1000, 1096}

\* The targets the orchestration layer sets in this model.
Voltages == {CONVERTER_SETPOINT_MIN, CONVERTER_SETPOINT_MAX}

\* Power::regulate, "Record initial time for soft start".
TimeStarted(started, millis_current) ==
    IF started = 0 THEN millis_current ELSE started

\* Power::regulate with the two branches of the soft start exchanged.
SoftStartBranchesSwapped(started, millis_current, target) ==
    IF millis_current < started \/ millis_current - started > CONVERTER_SOFT_START_TIME
    THEN F32ToUint8(F32Mul(F32Div(F32FromInt((millis_current - started) % MillisModulus),
                                  F32FromInt(CONVERTER_SOFT_START_TIME)),
                           F32FromInt(target)))
    ELSE target

\* Power::regulate, "Gradually increase setpoint (soft start)": the uint64_t
\* difference millis_current - started wraps to at least 2^64 - 2^32 when
\* millis_current < started.
SoftStart(started, millis_current, target) ==
    IF millis_current < started \/ millis_current - started > CONVERTER_SOFT_START_TIME
    THEN target
    ELSE F32ToUint8(F32Mul(F32Div(F32FromInt(millis_current - started),
                                  F32FromInt(CONVERTER_SOFT_START_TIME)),
                           F32FromInt(target)))

\* config.h, "Measured real 1.1V reference": 1.106f as a binary32.
VREF_ACTUAL_MV == [m |-> 9277800, e |-> -23]

\* config.h, "Measured resistances of voltage divider (in Ohms)".
CONVERTER_R_HIGH == 986000
CONVERTER_R_LOW == 4270

\* config.h, "PID-controller gains" (PID_I_GAIN is 11.4f: 114 tenths).
PID_P_GAIN == 85
PID_I_GAIN_TENTHS == 114
PID_D_GAIN == 0

\* config.h, "Limit PID output to 0% - 50% power".
PID_MIN_OUT == 0
PID_MAX_OUT == 512

\* config.h, "Limit to prevent integral windup".
PID_MIN_INTEGRAL == 0 - 1000
PID_MAX_INTEGRAL == 1000

\* The clock of the Atmega328P (build flag) and config.h, _CONVERTER_CYCLES.
F_CPU == 16000000
CONVERTER_FREQUENCY == 40000
CONVERTER_PERIOD_CYCLES ==
    (((F_CPU \div 100000) * ((1000 * 1000) \div CONVERTER_FREQUENCY))) \div 20

\* analogRead(CONVERTER_SENSE_PIN): the 10-bit readings the model draws from
\* (0 V, about 150 V and full scale).
AdcFullScale == 1023
AdcReadings == {0, 600, AdcFullScale}

\* Power::measure_voltage.  CONVERTER_R_LOW + CONVERTER_R_HIGH = 990270 is
\* exact in binary32.
MeasureVoltage(adc) ==
    F32Div(F32Mul(F32Div(F32FromInt(adc), F32FromInt(1023)), VREF_ACTUAL_MV),
           F32Div(F32FromInt(CONVERTER_R_LOW),
                  F32FromInt(CONVERTER_R_LOW + CONVERTER_R_HIGH)))

\* The measured voltage of every reading of the model.
Measured == [adc \in AdcReadings |-> MeasureVoltage(adc)]

\* Power::init without the call of set_min_max_integral: the integral term
\* keeps the widest limits.
PidConfigNoIntegralLimits ==
    [p |-> PID_P_GAIN, i_tenths |-> PID_I_GAIN_TENTHS, d |-> PID_D_GAIN,
     min_out |-> PID_MIN_OUT, max_out |-> PID_MAX_OUT,
     min_integral |-> 0 - 1000000, max_integral |-> 1000000]

\* Power::init, "Initialize PID class instance": the gains and the limits
\* handed to PetalPID.
PidConfig ==
    [p |-> PID_P_GAIN, i_tenths |-> PID_I_GAIN_TENTHS, d |-> PID_D_GAIN,
     min_out |-> PID_MIN_OUT, max_out |-> PID_MAX_OUT,
     min_integral |-> PID_MIN_INTEGRAL, max_integral |-> PID_MAX_INTEGRAL]

\* PetalPID computes in float; the model of the controller computes in
\* fixed point, PidScale steps to the unit.
PidScale == 64

\* floor(a * PidScale) of a float 0 <= a < 2^24.
F32ToFixed(a) ==
    IF a.m = 0 \/ a.e + 6 < 0 - 30 THEN 0
    ELSE IF a.e + 6 >= 0 THEN a.m * (2 ^ (a.e + 6))
    ELSE a.m \div (2 ^ (0 - (a.e + 6)))

Clamp(x, lo, hi) == IF x < lo THEN lo ELSE IF x > hi THEN hi ELSE x

\* PetalPID, a new controller: no integral, no previous error, no output.
PidInit == [integral |-> 0, error |-> 0, out |-> 0]

\* PetalPID::calculate: one PID step dt ms after the previous one.  The
\* integral term is clamped to the integral limits and the output to the
\* output limits.  All values are in 1/PidScale.
PidCalculate(state, cfg, input, sp, dt) ==
    LET error == sp * PidScale - F32ToFixed(input)
        integral == Clamp(state.integral + (cfg.i_tenths * error * dt) \div 10000,
                          cfg.min_integral * PidScale, cfg.max_integral * PidScale)
        derivative == IF dt = 0 THEN 0 ELSE (cfg.d * (error - state.error) * 1000) \div dt
    IN  [integral |-> integral,
         error |-> error,
         out |-> Clamp(cfg.p * error + integral + derivative,
                       cfg.min_out * PidScale, cfg.max_out * PidScale)]

\* The uint16_t duty_cycle that set_duty_cycle receives from the PID output.
DutyCycle(state) == (state.out \div PidScale) % 65536

\* Power::set_duty_cycle with >> 9UL in place of >> 10UL.
SetDutyCycleShift9(duty_cycle) ==
    ((CONVERTER_PERIOD_CYCLES * duty_cycle) \div 512) % 65536

\* Power::set_duty_cycle: the value written to the 16-bit OCR1A.
SetDutyCycle(duty_cycle) ==
    ((CONVERTER_PERIOD_CYCLES * duty_cycle) \div 1024) % 65536

\* Power::get_voltage
GetVoltage == setpoint

\* Power::init and setup(): the globals are zero-initialised, the target is restored.
PowerInit ==
    /\ millis_now \in BootTimes
    /\ time_started = 0
    /\ setpoint \in Voltages
    /\ setpoint_temp = 0
    /\ since_first = -1
    /\ voltage = F32Zero
    /\ pid = PidInit
    /\ ocr1a = SetDutyCycle(0)
    /\ setpoint_used = 0
    /\ voltage_arg = setpoint

PowerIdle ==
    /\ millis_now = 100
    /\ time_started = 0
    /\ setpoint = CONVERTER_SETPOINT_MAX
    /\ setpoint_temp = 0
    /\ since_first = -1
    /\ voltage = F32Zero
    /\ pid = PidInit
    /\ ocr1a = SetDutyCycle(0)
    /\ setpoint_used = 0
    /\ voltage_arg = setpoint

\* Power::set_voltage with a restart of the soft start.
SetVoltageRestartsRamp(v) ==
    /\ setpoint' = v % 256
    /\ voltage_arg' = v
    /\ time_started' = 0
    /\ UNCHANGED <<millis_now, setpoint_temp, since_first, reg_vars>>
    /\ UNCHANGED <<btn_vars, dig_vars, irq_vars, bz_vars, main_vars>>

\* Power::set_voltage (the parameter is a uint8_t)
SetVoltage(v) ==
    /\ setpoint' = v % 256
    /\ voltage_arg' = v
    /\ UNCHANGED <<millis_now, time_started, setpoint_temp, since_first, reg_vars>>
    /\ UNCHANGED <<btn_vars, dig_vars, irq_vars, bz_vars, main_vars>>

\* Power::regulate, called dt ms after the previous call, with the reading
\* adc of the feedback channel.
Regulate(dt, adc) ==
    /\ since_first + dt <= MaxUptime
    /\ LET millis_current == (millis_now + (IF since_first < 0 THEN 0 ELSE dt)) % MillisModulus
           started == TimeStarted(time_started, millis_current)
           sp_temp == SoftStart(started, millis_current, setpoint)
           measured == Measured[adc]
           state == PidCalculate(pid, PidConfig, measured, sp_temp,
                                 IF since_first < 0 THEN 0 ELSE dt)
       IN  /\ voltage' = measured
           /\ millis_now' = millis_current
           /\ time_started' = started
           /\ setpoint_temp' = sp_temp
           /\ pid' = state
           /\ ocr1a' = SetDutyCycle(DutyCycle(state))
    /\ since_first' = IF since_first < 0 THEN 0 ELSE since_first + dt
    /\ setpoint_used' = setpoint
    /\ UNCHANGED <<setpoint, voltage_arg>>
    /\ UNCHANGED <<btn_vars, dig_vars, irq_vars, bz_vars, main_vars>>

(***************************************************************************)
(* Buzzer                                                                  *)
(***************************************************************************)
\* config.h
BUZZER_PWM_START == 50
BUZZER_PWM_DEVIATION == 40
DECAY_TIME == 400
A_BASE == 440
BUTTON_NOTE_PWM == 10
NOTE_INCREMENT == 91
NOTE_DECREMENT == 88
NOTE_SET_MODE == 81
NOTE_DURATION_DIVIDERS == <<1, 2, 2, 2, 4, 8>>
NOTE_DURATION_DIVIDERS_N == 6
ALARM_CHIME_NOTES == <<0, 0, 62, 65, 69, 62, 65, 69, 86, 88, 89, 91, 93, 94, 96, 98>>
ALARM_CHIME_NOTES_N == 16
ALARM_CHIME_BPM == 90

\* buzzer.h
RESOLUTION == 256
PRESCALER_1 == 1
PRESCALER_8 == 2
PRESCALER_32 == 3
PRESCALER_64 == 4
PRESCALER_128 == 5
PRESCALER_256 == 6
PRESCALER_1024 == 7

\* _BV(WGM22) of TCCR2B
WGM22 == 8

\* powf(2.f, n / 12.f) for the notes n + 9 the firmware plays: the binary32
\* nearest to 2^x for the binary32 x = n / 12.f.
Powf2 ==
    [n \in {53, 56, 60, 72, 77, 79, 80, 82, 84, 85, 87, 89} |->
        CASE n = 53 -> [m |-> 11197447, e |-> -19]
          [] n = 56 -> [m |-> 13316084, e |-> -19]
          [] n = 60 -> [m |-> 8388608, e |-> -18]
          [] n = 72 -> [m |-> 8388608, e |-> -17]
          [] n = 77 -> [m |-> 11197447, e |-> -17]
          [] n = 79 -> [m |-> 12568712, e |-> -17]
          [] n = 80 -> [m |-> 13316084, e |-> -17]
          [] n = 82 -> [m |-> 14946802, e |-> -17]
          [] n = 84 -> [m |-> 8388608, e |-> -16]
          [] n = 85 -> [m |-> 8887422, e |-> -16]
          [] n = 87 -> [m |-> 9975792, e |-> -16]
          [] n = 89 -> [m |-> 11197447, e |-> -16]]

\* Buzzer::play_note, the argument of set_frequency:
\* (A_BASE / 32.f) * powf(2.f, ((note_number - 9U) / 12.f))
Frequency(note_number) ==
    F32Mul(F32Div(F32FromInt(A_BASE), F32FromInt(32)), Powf2[note_number - 9])

\* (uint32_t) a for a float 0 <= a < 2^31: the fraction is discarded.
F32ToUint32(a) ==
    IF a.m = 0 \/ a.e < 0 - 24 THEN 0
    ELSE IF a.e >= 0 THEN a.m * (2 ^ a.e)
    ELSE a.m \div (2 ^ (0 - a.e))

\* Buzzer::set_frequency, "Convert frequency to cycles".
Cycles(frequency) ==
    F32ToUint32(F32Mul(F32FromInt(F_CPU \div 2000000),
                       F32Div(F32FromInt(1000000), frequency)))

\* Buzzer::set_frequency with the tests taken as cycles <= _RESOLUTION.
PrescalerInclusive(cycles, bits) ==
    LET c8 == cycles \div 8
        c32 == c8 \div 4
        c64 == c32 \div 2
        c128 == c64 \div 2
        c256 == c128 \div 2
        c1024 == c256 \div 4
    IN  IF cycles <= RESOLUTION THEN [prescaler_bits |-> PRESCALER_1, cycles |-> cycles]
        ELSE IF c8 <= RESOLUTION THEN [prescaler_bits |-> PRESCALER_8, cycles |-> c8]
        ELSE IF c32 <= RESOLUTION THEN [prescaler_bits |-> PRESCALER_32, cycles |-> c32]
        ELSE IF c64 <= RESOLUTION THEN [prescaler_bits |-> PRESCALER_64, cycles |-> c64]
        ELSE IF c128 <= RESOLUTION THEN [prescaler_bits |-> PRESCALER_128, cycles |-> c128]
        ELSE IF c256 <= RESOLUTION THEN [prescaler_bits |-> PRESCALER_256, cycles |-> c256]
        ELSE IF c1024 <= RESOLUTION THEN [prescaler_bits |-> PRESCALER_1024, cycles |-> c1024]
        ELSE [prescaler_bits |-> bits, cycles |-> c1024]

\* Buzzer::set_frequency, "Calculate prescaler": cycles is shifted from one
\* test to the next; when no prescaler fits, prescaler_bits keeps its value.
Prescaler(cycles, bits) ==
    LET c8 == cycles \div 8
        c32 == c8 \div 4
        c64 == c32 \div 2
        c128 == c64 \div 2
        c256 == c128 \div 2
        c1024 == c256 \div 4
    IN  IF cycles < RESOLUTION THEN [prescaler_bits |-> PRESCALER_1, cycles |-> cycles]
        ELSE IF c8 < RESOLUTION THEN [prescaler_bits |-> PRESCALER_8, cycles |-> c8]
        ELSE IF c32 < RESOLUTION THEN [prescaler_bits |-> PRESCALER_32, cycles |-> c32]
        ELSE IF c64 < RESOLUTION THEN [prescaler_bits |-> PRESCALER_64, cycles |-> c64]
        ELSE IF c128 < RESOLUTION THEN [prescaler_bits |-> PRESCALER_128, cycles |-> c128]
        ELSE IF c256 < RESOLUTION THEN [prescaler_bits |-> PRESCALER_256, cycles |-> c256]
        ELSE IF c1024 < RESOLUTION THEN [prescaler_bits |-> PRESCALER_1024, cycles |-> c1024]
        ELSE [prescaler_bits |-> bits, cycles |-> c1024]

\* Buzzer::set_frequency: prescaler_bits and the values written to TCCR2B
\* and to the 8-bit OCR2A.
SetFrequency(frequency, bits) ==
    LET p == Prescaler(Cycles(frequency), bits)
    IN  [prescaler_bits |-> p.prescaler_bits,
         tccr2b |-> WGM22 + p.prescaler_bits,
         ocr2a |-> p.cycles % 256]

\* Buzzer::set_duty_cycle: the value written to the 8-bit OCR2B.  The
\* product is an int; it stays below 2^15 for the velocities of the firmware.
BuzzerSetDutyCycle(top, duty_cycle) == ((top * duty_cycle) \div 256) % 256

\* Buzzer::play_note with set_frequency called for every note but silence.
FrequencyWrittenAlways(note_number, last) == note_number # 0

\* Buzzer::play_note: set_frequency is called when the note is not the last
\* one and not silence.
FrequencyWritten(note_number, last) == note_number # last /\ note_number # 0

\* Buzzer::play_note with the velocity kept for silence.
AttackPwmValueKept(note_number, pwm) == pwm

\* Buzzer::play_note: attack_pwm_value = note_number != 0 ? pwm : 0U
AttackPwmValue(note_number, pwm) == IF note_number # 0 THEN pwm ELSE 0

\* The division of C (the quotient truncated towards zero), b > 0.
TruncDiv(a, b) == IF a >= 0 THEN a \div b ELSE 0 - ((0 - a) \div b)

\* map() of Arduino, in long arithmetic.
Map(x, in_min, in_max, out_min, out_max) ==
    TruncDiv((x - in_min) * (out_max - out_min), in_max - in_min) + out_min

\* Buzzer::decay, "Decaying": uint8_t duty_cycle = map(...)
DecayDuty(elapsed, attack) == Map(elapsed, 0, DECAY_TIME, attack, 0) % 256

\* Buzzer::decay, the wrap check: if (decay_timer > millis_current)
DecayTimer(timer, millis_current) ==
    IF timer > millis_current THEN millis_current ELSE timer

\* The notes and velocities the tone engine is asked to play in this model.
Notes == {0, 69, NOTE_SET_MODE}
Velocities == {BUTTON_NOTE_PWM, 100}

\* ms between an operation of the tone engine and the next decay() call
\* (the last is a long idle time, which takes the clock to its wrap).
DecayTimes == {0, 1, 200, 3796}

\* Buzzer::init: set_frequency(1000.f), set_duty_cycle(0); the other fields
\* are zero-initialised.
BuzzerInit ==
    /\ note_last = 0
    /\ attack_pwm_value = 0
    /\ decay_timer = 0
    /\ LET f == SetFrequency(F32FromInt(1000), 0)
       IN  /\ prescaler_bits = f.prescaler_bits
           /\ tccr2b = f.tccr2b
           /\ ocr2a = f.ocr2a
           /\ ocr2b = BuzzerSetDutyCycle(f.ocr2a, 0)
    /\ duty = 0
    /\ bz_call = [op |-> "init", note |-> 0, pwm |-> 0, frequency |-> TRUE, duty |-> TRUE,
                  elapsed |-> -1]
    /\ bz_calls = 0
    /\ chime_timer = 0
    /\ chime_note_duration = 0
    /\ note_duration_divider = 0
    /\ note_counter = 0
    /\ chime_call = [emitted |-> FALSE, divider |-> 0, duration |-> 0, elapsed |-> 0,
                     since |-> -1, velocity |-> -1, rolled |-> FALSE, drawn |-> 0]
    /\ chime_calls = 0
    /\ since_note = -1
    /\ notes_since_roll = 0
    /\ rolls = 0

\* The registers and fields of the tone engine.
Tone ==
    [note_last |-> note_last, attack_pwm_value |-> attack_pwm_value,
     decay_timer |-> decay_timer, prescaler_bits |-> prescaler_bits, tccr2b |-> tccr2b,
     ocr2a |-> ocr2a, ocr2b |-> ocr2b, duty |-> duty, frequency |-> FALSE, written |-> FALSE]

\* Buzzer::play_note(note_number, pwm) on the tone engine s when millis()
\* returns millis_current; frequency tells whether set_frequency was called.
PlayNoteOn(s, note_number, pwm, millis_current) ==
    LET set == FrequencyWritten(note_number, s.note_last)
        f == IF set THEN SetFrequency(Frequency(note_number), s.prescaler_bits)
             ELSE [prescaler_bits |-> s.prescaler_bits, tccr2b |-> s.tccr2b, ocr2a |-> s.ocr2a]
        attack == AttackPwmValue(note_number, pwm)
    IN  [note_last |-> note_number,
         attack_pwm_value |-> attack,
         decay_timer |-> millis_current,
         prescaler_bits |-> f.prescaler_bits,
         tccr2b |-> f.tccr2b,
         ocr2a |-> f.ocr2a,
         ocr2b |-> BuzzerSetDutyCycle(f.ocr2a, attack),
         duty |-> attack,
         frequency |-> set,
         written |-> TRUE]

\* The tone engine becomes s.
ToneBecomes(s) ==
    /\ note_last' = s.note_last
    /\ attack_pwm_value' = s.attack_pwm_value
    /\ decay_timer' = s.decay_timer
    /\ prescaler_bits' = s.prescaler_bits
    /\ tccr2b' = s.tccr2b
    /\ ocr2a' = s.ocr2a
    /\ ocr2b' = s.ocr2b
    /\ duty' = s.duty

\* Buzzer::play_note when millis() returns millis_current.
PlayNoteAt(note_number, pwm, millis_current) ==
    LET s == PlayNoteOn(Tone, note_number, pwm, millis_current)
    IN  /\ ToneBecomes(s)
        /\ bz_call' = [op |-> "play_note", note |-> note_number, pwm |-> pwm,
                       frequency |-> s.frequency, duty |-> TRUE, elapsed |-> 0]

\* Buzzer::play_note at the present millis().
PlayNoteEffect(note_number, pwm) == PlayNoteAt(note_number, pwm, millis_now)

\* Buzzer::play_note, called by the modes.
PlayNote(note_number, pwm) ==
    /\ bz_calls < MaxBuzzerCalls
    /\ PlayNoteEffect(note_number, pwm)
    /\ bz_calls' = bz_calls + 1
    /\ UNCHANGED chime_vars
    /\ UNCHANGED <<btn_vars, dig_vars, irq_vars, pwr_vars, main_vars>>

\* Buzzer::decay on the tone engine s when millis() returns millis_current;
\* written tells whether set_duty_cycle was called.
DecayOn(s, millis_current) ==
    LET timer == DecayTimer(s.decay_timer, millis_current)
        elapsed == millis_current - timer
        decayed == timer # 0 /\ elapsed >= DECAY_TIME
        decaying == ~decayed /\ elapsed < DECAY_TIME
        duty_cycle == IF decayed THEN 0 ELSE DecayDuty(elapsed, s.attack_pwm_value)
    IN  [s EXCEPT !.decay_timer = IF decayed THEN 0 ELSE timer,
                  !.duty = IF decayed \/ decaying THEN duty_cycle ELSE @,
                  !.ocr2b = IF decayed \/ decaying
                            THEN BuzzerSetDutyCycle(s.ocr2a, duty_cycle) ELSE @,
                  !.frequency = FALSE,
                  !.written = decayed \/ decaying]

\* Buzzer::decay, called dt ms after the previous operation of the tone engine.
Decay(dt) ==
    /\ bz_calls < MaxBuzzerCalls
    /\ LET millis_current == (millis_now + dt) % MillisModulus
           s == DecayOn(Tone, millis_current)
       IN  /\ millis_now' = millis_current
           /\ ToneBecomes(s)
           /\ bz_call' = [op |-> "decay", note |-> 0, pwm |-> 0, frequency |-> FALSE,
                          duty |-> s.written,
                          elapsed |-> IF bz_call.elapsed < 0 THEN -1
                                      ELSE bz_call.elapsed + dt]
    /\ bz_calls' = bz_calls + 1
    /\ UNCHANGED chime_vars
    /\ UNCHANGED <<time_started, setpoint, setpoint_temp, since_first, reg_vars, voltage_arg>>
    /\ UNCHANGED <<btn_vars, dig_vars, irq_vars, main_vars>>

(***************************************************************************)
(* Buzzer: the chime                                                       *)
(***************************************************************************)
\* Values random() returns (a long in 0 .. 2^31 - 1) for the velocity (used
\* modulo 40: the least and the greatest residue), for the note (modulo 16:
\* silence and note 69) and for the divider (modulo 6: each divider once).
VelocityRandoms == {0, 39}
NoteRandoms == {0, 39}
DividerRandoms == {0, 5, 39, 46}

\* ms between a play_chime call and the next (the last is a long pause of
\* the alarm, which takes the clock to its wrap).
ChimeTimes == {0, 333, 3330}

\* Buzzer::play_chime, "Select random velocity": the int is stored in the
\* uint8_t attack_pwm_value.
ChimeVelocity(r) ==
    (BUZZER_PWM_START
        + (((r % BUZZER_PWM_DEVIATION) * 2) - (BUZZER_PWM_DEVIATION \div 2))) % 256

\* Buzzer::play_chime, "Select random note".
ChimeNote(r) == ALARM_CHIME_NOTES[(r % ALARM_CHIME_NOTES_N) + 1]

\* Buzzer::play_chime with every divider of the table doubled.
DurationDividerDoubled(r) == 2 * NOTE_DURATION_DIVIDERS[(r % NOTE_DURATION_DIVIDERS_N) + 1]

\* Buzzer::play_chime, "Select new note duration": the divider.
DurationDivider(r) == NOTE_DURATION_DIVIDERS[(r % NOTE_DURATION_DIVIDERS_N) + 1]

\* Buzzer::play_chime: 60000.f / ALARM_CHIME_BPM / (float) note_duration_divider,
\* stored in the uint16_t chime_note_duration.
ChimeNoteDuration(divider) ==
    F32ToUint32(F32Div(F32Div(F32FromInt(60000), F32FromInt(ALARM_CHIME_BPM)),
                       F32FromInt(divider))) % 65536

\* Buzzer::play_chime, the wrap check: if (chime_timer > millis_current)
ChimeTimer(timer, millis_current) ==
    IF timer > millis_current THEN millis_current ELSE timer

\* Buzzer::play_chime with a note in every call.
ChimeDueAlways(elapsed, duration) == TRUE

\* Buzzer::play_chime, "New note": millis_current - chime_timer >= chime_note_duration
ChimeDue(elapsed, duration) == elapsed >= duration

\* Buzzer::play_chime with the divider drawn one note earlier.
RerollDueEarly(counter, divider) == counter >= divider

\* Buzzer::play_chime: if (note_counter > note_duration_divider)
RerollDue(counter, divider) == counter > divider

\* Buzzer::play_chime when millis() returns millis_current: a note is due.
NoteDue(millis_current) ==
    ChimeDue(millis_current - ChimeTimer(chime_timer, millis_current), chime_note_duration)

\* Buzzer::play_chime when millis() returns millis_current: a note is due and
\* a divider is drawn after it.
DividerDue(millis_current) ==
    NoteDue(millis_current) /\ RerollDue((note_counter + 1) % 256, note_duration_divider)

\* Buzzer::play_chime when millis() returns millis_current: the fields of
\* the chime.
ChimeStateEffect(millis_current, r_divider) ==
    LET timer == ChimeTimer(chime_timer, millis_current)
        due == NoteDue(millis_current)
        counter == (note_counter + 1) % 256
        roll == DividerDue(millis_current)
        divider == DurationDivider(r_divider)
    IN  /\ chime_timer' = (IF due THEN millis_current ELSE timer)
        /\ note_counter' = (IF roll THEN 0 ELSE IF due THEN counter ELSE note_counter)
        /\ note_duration_divider' = (IF roll THEN divider ELSE note_duration_divider)
        /\ chime_note_duration' =
               (IF roll THEN ChimeNoteDuration(divider) ELSE chime_note_duration)

\* Buzzer::play_chime when millis() returns millis_current, dt ms after the
\* previous call; random() returns r_velocity, r_note and r_divider in turn.
PlayChimeEffect(millis_current, dt, r_velocity, r_note, r_divider) ==
    LET timer == ChimeTimer(chime_timer, millis_current)
        elapsed == millis_current - timer
        due == NoteDue(millis_current)
        roll == DividerDue(millis_current)
        divider == DurationDivider(r_divider)
        since == IF since_note < 0 THEN -1
                 ELSE IF since_note + dt > MaxSilence THEN MaxSilence
                 ELSE since_note + dt
    IN  /\ ChimeStateEffect(millis_current, r_divider)
        /\ IF due
           THEN PlayNoteAt(ChimeNote(r_note), ChimeVelocity(r_velocity), millis_current)
           ELSE UNCHANGED <<note_last, attack_pwm_value, decay_timer, timer2_vars, ocr2b,
                            duty, bz_call>>
        /\ chime_call' = [emitted |-> due,
                          divider |-> note_duration_divider,
                          duration |-> chime_note_duration,
                          elapsed |-> elapsed,
                          since |-> since,
                          velocity |-> IF due THEN ChimeVelocity(r_velocity) ELSE -1,
                          rolled |-> roll,
                          drawn |-> IF roll THEN divider ELSE 0]
        /\ since_note' = (IF due THEN 0 ELSE since)
        /\ notes_since_roll' =
               (IF roll THEN 0 ELSE IF due THEN notes_since_roll + 1 ELSE notes_since_roll)
        /\ rolls' = (IF roll /\ rolls < 2 THEN rolls + 1 ELSE rolls)

\* Buzzer::play_chime, called dt ms after the previous call; a random() call
\* that is not made has no value (0 here).
PlayChime(dt, r_velocity, r_note, r_divider) ==
    /\ chime_calls < MaxChimeCalls
    /\ LET millis_current == (millis_now + dt) % MillisModulus
       IN  /\ NoteDue(millis_current) \/ (r_velocity = 0 /\ r_note = 0)
           /\ DividerDue(millis_current) \/ r_divider = 0
           /\ millis_now' = millis_current
           /\ PlayChimeEffect(millis_current, dt, r_velocity, r_note, r_divider)
    /\ chime_calls' = chime_calls + 1
    /\ UNCHANGED bz_calls
    /\ UNCHANGED <<time_started, setpoint, setpoint_temp, since_first, reg_vars, voltage_arg>>
    /\ UNCHANGED <<btn_vars, dig_vars, irq_vars, main_vars>>

(***************************************************************************)
(* main.cpp: the converter setpoint, restored and edited                   *)
(***************************************************************************)
MODE_TIME == 0
MODE_VOLTAGE == 1
MODE_SET_HOURS == 2
MODE_SET_MINUTES == 3
MODE_WEATHER == 4

\* config.h
BTN_INC_DEC_DELAY_LOW == 250
BTN_INC_DEC_DELAY_HIGH == 70
BTN_INC_DEC_DELAY_TRANS_TIME == 2000
NOTE_TIME_MODE == 86
NOTE_WEATHER_MODE == 93
NOTE_ALARM_ON == 81

\* setup(), "Restore alarm".
RestoreAlarmHours(stored) == IF stored > 23 THEN 0 ELSE stored
RestoreAlarmMinutes(stored) == IF stored > 59 THEN 0 ELSE stored
RestoreAlarmActive(stored) == stored = 0

\* pins.h: the cathodes from the bottom to the top; C arrays, index from 0.
POSITION_TO_NUMBER == <<1, 7, 2, 8, 0, 6, 3, 9, 4, 5>>
NUMBER_TO_POSITION == <<4, 0, 2, 6, 8, 9, 5, 1, 3, 7>>

PositionToNumber(position) == POSITION_TO_NUMBER[position + 1]

\* The digit taken as its own position.
NumberToPositionPlain(number) == number

NumberToPosition(number) == NUMBER_TO_POSITION[number + 1]

\* The four digits of a time: hours / 10, hours % 10, minutes / 10, minutes % 10.
TimeDigits(hours, minutes) == <<hours \div 10, hours % 10, minutes \div 10, minutes % 10>>

\* setup() and mode_clock, the start of a wave: the positions of the digits shown.
WaveStart(hours, minutes) ==
    [k \in 1..4 |-> NumberToPosition(TimeDigits(hours, minutes)[k])]

\* mode_clock, line 189: wave_positions[i] == 9 ? 0 : wave_positions[i] + 1.
WaveStep(position) == IF position = 9 THEN 0 ELSE position + 1

\* mode_clock, lines 190-193: the digits of the wave.
WaveDigits(positions) == [k \in 1..4 |-> PositionToNumber(positions[k])]

\* config.h
SEPARATOR_TIME == 250
ALARM_PREVIEW_TIME == 1000

\* Update period of the wave, ms (mode_clock, line 186) and the value of
\* wave_counter that ends it (line 197).
WAVE_PERIOD == 100
WAVE_END == 21

\* setup(), lines 98-105: the wave is started from the time just read; the
\* timers are zero-initialised.
WaveAtBoot ==
    /\ rtc_seconds = 0
    /\ wave_started = TRUE
    /\ wave_counter = 0
    /\ wave_positions = WaveStart(rtc_hours, rtc_minutes)
    /\ wave_timer = 0
    /\ separator_timer = 0
    /\ wave_since = MaxWaveGap
    /\ uptime = 0
    /\ wave_call = [updated |-> FALSE, gap |-> MaxWaveGap, ended |-> FALSE, started |-> TRUE,
                    from |-> TimeDigits(rtc_hours, rtc_minutes)]

\* The globals of main.cpp after setup() with an erased EEPROM and the RTC
\* at 0:00; loop() has not run.
LoopIdle ==
    /\ set_last = FALSE
    /\ alarm_active = RestoreAlarmActive(255)
    /\ alarm_hours = RestoreAlarmHours(255)
    /\ alarm_minutes = RestoreAlarmMinutes(255)
    /\ alarm_disabled_hours = 255
    /\ alarm_disabled_minutes = 255
    /\ alarm_preview_timer = 0
    /\ set_hours = 0
    /\ set_minutes = 0
    /\ btn_timer = 0
    /\ inc_dec_timer = 0
    /\ inc_dec_delay = 0
    /\ eeprom_alarm_hours = 255
    /\ eeprom_alarm_minutes = 255
    /\ eeprom_alarm_off = 255
    /\ rtc_interrupt = FALSE
    /\ rtc_hours = 0
    /\ rtc_minutes = 0
    /\ loop_pc = "head"
    /\ sqw_interrupt = FALSE
    /\ loops = 0
    /\ loop_call = [op |-> "setup", mode |-> MODE_TIME, set_edge |-> FALSE, alarm_sw |-> FALSE, rtc_read |-> TRUE,
                    chime |-> FALSE, set_step |-> FALSE, rtc_set |-> <<>>,
                     compared |-> -1, released |-> FALSE]
    /\ set_steps = 0
    /\ set_seen = "none"
    /\ dismissed = <<>>
    /\ held = 0
    /\ WaveAtBoot

\* setup() with the stored byte taken as it is.
RestoreVoltageUnchecked(stored) == stored

\* setup(), "Restore converter voltage": the argument of power.set_voltage.
RestoreVoltage(stored) ==
    IF stored > CONVERTER_SETPOINT_MAX \/ stored < CONVERTER_SETPOINT_MIN
    THEN (CONVERTER_SETPOINT_MAX + CONVERTER_SETPOINT_MIN) \div 2
    ELSE stored

\* The main loop in its clock mode; the EEPROM is erased.
MainIdle ==
    /\ mode = MODE_TIME
    /\ eeprom_voltage = 255
    /\ LoopIdle

\* increment() in voltage mode.
Increment ==
    /\ mode = MODE_VOLTAGE
    /\ IF GetVoltage < CONVERTER_SETPOINT_MAX
       THEN /\ setpoint' = (GetVoltage + 1) % 256
            /\ voltage_arg' = GetVoltage + 1
            /\ eeprom_voltage' = (GetVoltage + 1) % 256
       ELSE UNCHANGED <<setpoint, voltage_arg, eeprom_voltage>>
    /\ PlayNoteEffect(NOTE_INCREMENT, BUTTON_NOTE_PWM)
    /\ UNCHANGED <<bz_calls, chime_vars, mode, loop_vars>>
    /\ UNCHANGED <<millis_now, time_started, setpoint_temp, since_first, reg_vars>>
    /\ UNCHANGED <<btn_vars, dig_vars, irq_vars>>

\* decrement() in voltage mode.
Decrement ==
    /\ mode = MODE_VOLTAGE
    /\ IF GetVoltage > CONVERTER_SETPOINT_MIN
       THEN /\ setpoint' = (GetVoltage - 1) % 256
            /\ voltage_arg' = GetVoltage - 1
            /\ eeprom_voltage' = (GetVoltage - 1) % 256
       ELSE UNCHANGED <<setpoint, voltage_arg, eeprom_voltage>>
    /\ PlayNoteEffect(NOTE_DECREMENT, BUTTON_NOTE_PWM)
    /\ UNCHANGED <<bz_calls, chime_vars, mode, loop_vars>>
    /\ UNCHANGED <<millis_now, time_started, setpoint_temp, since_first, reg_vars>>
    /\ UNCHANGED <<btn_vars, dig_vars, irq_vars>>

(***************************************************************************)
(* main.cpp: loop() and the mode handlers.  What the handlers show          *)
(* (digits.set, set_separator, the wave and the blinking) is the display    *)
(* driver's state, power.regulate() the converter's; they are followed in   *)
(* SpecDigits and SpecPower.  The handlers are functions of the globals of  *)
(* main.cpp, taken as a record m; in is what the getters of the debounced   *)
(* inputs return during the iteration.                                      *)
(***************************************************************************)
\* The bytes 4..7 of the EEPROM at boot: erased, or written by an earlier run.
StoredBytes == {<<255, 255, 255, 255>>, <<179, 22, 58, 1>>}

\* The times <<hours, minutes>> rtc.read() finds.
RtcTimes == {<<0, 0>>, <<22, 58>>}

\* The time rtc.read() finds in setup().
BootRtcTimes == {<<22, 58>>}

\* ms between two iterations of loop().
MainTimes == {250}

\* What random() returns to play_chime in the main loop.
ChimeRandom == 39

\* What the getters return: every combination of the five inputs.
Presses == [Inputs -> BOOLEAN]

\* A uint64_t difference a - b: below zero it wraps to at least 2^64 - 2^32,
\* which is above every delay it is compared with.
Uint64Wrapped == 1073741824
Elapsed(a, b) == IF a >= b THEN a - b ELSE Uint64Wrapped

\* The globals of main.cpp, the converter setpoint and the EEPROM bytes as a
\* record; notes are the play_note calls made so far in the iteration, chime
\* whether play_chime was called, set_step whether a SET branch was taken,
\* alarm_edit whether increment or decrement edited the alarm, rtc_set the
\* <<hours, minutes>> given to rtc.set, compared the repeat delay inc_dec
\* compared the elapsed time with (-1: no comparison), released whether
\* inc_dec found UP and DOWN released.
Main ==
    [mode |-> mode, set_last |-> set_last, alarm_active |-> alarm_active,
     alarm_hours |-> alarm_hours, alarm_minutes |-> alarm_minutes,
     alarm_disabled_hours |-> alarm_disabled_hours,
     alarm_disabled_minutes |-> alarm_disabled_minutes,
     alarm_preview_timer |-> alarm_preview_timer,
     set_hours |-> set_hours, set_minutes |-> set_minutes,
     btn_timer |-> btn_timer, inc_dec_timer |-> inc_dec_timer,
     inc_dec_delay |-> inc_dec_delay,
     setpoint |-> setpoint, voltage_arg |-> voltage_arg,
     eeprom_voltage |-> eeprom_voltage, eeprom_alarm_hours |-> eeprom_alarm_hours,
     eeprom_alarm_minutes |-> eeprom_alarm_minutes, eeprom_alarm_off |-> eeprom_alarm_off,
     rtc_interrupt |-> rtc_interrupt,
     notes |-> <<>>, chime |-> FALSE, set_step |-> FALSE, alarm_edit |-> FALSE,
     rtc_set |-> <<>>, compared |-> -1, released |-> FALSE]

\* buzzer.play_note(note_number, pwm) in a handler.
Note(m, note_number, pwm) == [m EXCEPT !.notes = Append(@, <<note_number, pwm>>)]

\* alarm() with alarm_active itself written to byte 7.
AlarmSlotPlain(active) == IF active THEN 1 ELSE 0

\* alarm(): EEPROM.write(7, !alarm_active)
AlarmSlot(active) == IF active THEN 0 ELSE 1

\* alarm() with the alarm activated at any time of the day.
AlarmTimeAny(m) == TRUE

\* alarm(), "Activate alarm": the RTC shows the alarm time.
AlarmTime(m) == rtc_hours = m.alarm_hours /\ rtc_minutes = m.alarm_minutes

\* alarm() without the test of the dismissed time.
NotDismissedAlways(m) == TRUE

\* alarm() with every time taken as the dismissed one.
NotDismissedNever(m) == FALSE

\* alarm(), "Activate alarm": the present time is not the dismissed one.
NotDismissed(m) ==
    rtc_hours # m.alarm_disabled_hours /\ rtc_minutes # m.alarm_disabled_minutes

\* alarm() with the dismissed time left as it is.
DismissalKeepsTime(m) ==
    [m EXCEPT !.alarm_active = FALSE, !.eeprom_alarm_off = AlarmSlot(FALSE)]

\* alarm(), "Alarm has been turned off", up to the note.
Dismissal(m) ==
    [m EXCEPT !.alarm_active = FALSE,
              !.alarm_disabled_hours = rtc_hours,
              !.alarm_disabled_minutes = rtc_minutes,
              !.eeprom_alarm_off = AlarmSlot(FALSE)]

\* alarm()
Alarm(m, in, millis_current) ==
    LET cleared == IF rtc_hours # m.alarm_disabled_hours
                      \/ rtc_minutes # m.alarm_disabled_minutes
                   THEN [m EXCEPT !.alarm_disabled_hours = 255,
                                  !.alarm_disabled_minutes = 255]
                   ELSE m
        preview == IF cleared.alarm_preview_timer = 0
                   THEN Note([cleared EXCEPT !.alarm_preview_timer = millis_current],
                             NOTE_ALARM_ON, BUTTON_NOTE_PWM)
                   ELSE cleared
        on == IF AlarmTime(preview) /\ NotDismissed(preview) /\ ~preview.alarm_active
              THEN [preview EXCEPT !.alarm_active = TRUE,
                                   !.eeprom_alarm_off = AlarmSlot(TRUE)]
              ELSE preview
        idle == [cleared EXCEPT !.alarm_preview_timer = 0]
        off == IF idle.alarm_active
               THEN Note(Dismissal(idle), NOTE_TIME_MODE, BUTTON_NOTE_PWM)
               ELSE idle
        switched == IF in["alarm"] THEN on ELSE off
        chimed == IF switched.alarm_active /\ NoteDue(millis_current)
                  THEN Note(switched, ChimeNote(ChimeRandom), ChimeVelocity(ChimeRandom))
                  ELSE switched
    IN  [chimed EXCEPT !.chime = switched.alarm_active]

\* return_to_main()
ReturnToMain(m) ==
    Note([m EXCEPT !.mode = MODE_TIME, !.rtc_interrupt = FALSE],
         NOTE_TIME_MODE, BUTTON_NOTE_PWM)

\* increment()
IncrementOn(m, in) ==
    LET stepped ==
            IF m.mode = MODE_VOLTAGE
            THEN IF m.setpoint < CONVERTER_SETPOINT_MAX
                 THEN [m EXCEPT !.setpoint = (m.setpoint + 1) % 256,
                                !.voltage_arg = m.setpoint + 1,
                                !.eeprom_voltage = (m.setpoint + 1) % 256]
                 ELSE m
            ELSE IF m.mode = MODE_SET_HOURS \/ m.mode = MODE_SET_MINUTES
            THEN IF in["alarm"]
                 THEN LET hours == IF m.mode = MODE_SET_HOURS /\ m.alarm_hours < 23
                                   THEN m.alarm_hours + 1 ELSE m.alarm_hours
                          minutes == IF m.mode = MODE_SET_MINUTES /\ m.alarm_minutes < 59
                                     THEN m.alarm_minutes + 1 ELSE m.alarm_minutes
                      IN  [m EXCEPT !.alarm_hours = hours, !.alarm_minutes = minutes,
                                    !.alarm_disabled_hours = 255,
                                    !.alarm_disabled_minutes = 255,
                                    !.eeprom_alarm_hours = hours,
                                    !.eeprom_alarm_minutes = minutes,
                                    !.alarm_edit = TRUE]
                 ELSE LET hours == IF m.mode = MODE_SET_HOURS /\ m.set_hours < 23
                                   THEN m.set_hours + 1 ELSE m.set_hours
                          minutes == IF m.mode = MODE_SET_MINUTES /\ m.set_minutes < 59
                                     THEN m.set_minutes + 1 ELSE m.set_minutes
                      IN  [m EXCEPT !.set_hours = hours, !.set_minutes = minutes,
                                    !.rtc_set = <<hours, minutes>>]
            ELSE m
    IN  Note(stepped, NOTE_INCREMENT, BUTTON_NOTE_PWM)

\* decrement()
DecrementOn(m, in) ==
    LET stepped ==
            IF m.mode = MODE_VOLTAGE
            THEN IF m.setpoint > CONVERTER_SETPOINT_MIN
                 THEN [m EXCEPT !.setpoint = (m.setpoint - 1) % 256,
                                !.voltage_arg = m.setpoint - 1,
                                !.eeprom_voltage = (m.setpoint - 1) % 256]
                 ELSE m
            ELSE IF m.mode = MODE_SET_HOURS \/ m.mode = MODE_SET_MINUTES
            THEN IF in["alarm"]
                 THEN LET hours == IF m.mode = MODE_SET_HOURS /\ m.alarm_hours > 0
                                   THEN m.alarm_hours - 1 ELSE m.alarm_hours
                          minutes == IF m.mode = MODE_SET_MINUTES /\ m.alarm_minutes > 0
                                     THEN m.alarm_minutes - 1 ELSE m.alarm_minutes
                      IN  [m EXCEPT !.alarm_hours = hours, !.alarm_minutes = minutes,
                                    !.alarm_disabled_hours = 255,
                                    !.alarm_disabled_minutes = 255,
                                    !.eeprom_alarm_hours = hours,
                                    !.eeprom_alarm_minutes = minutes,
                                    !.alarm_edit = TRUE]
                 ELSE LET hours == IF m.mode = MODE_SET_HOURS /\ m.set_hours > 0
                                   THEN m.set_hours - 1 ELSE m.set_hours
                          minutes == IF m.mode = MODE_SET_MINUTES /\ m.set_minutes > 0
                                     THEN m.set_minutes - 1 ELSE m.set_minutes
                      IN  [m EXCEPT !.set_hours = hours, !.set_minutes = minutes,
                                    !.rtc_set = <<hours, minutes>>]
            ELSE m
    IN  Note(stepped, NOTE_DECREMENT, BUTTON_NOTE_PWM)

\* inc_dec() with the delay mapped from the short one to the long one.
IncDecDelayRising(passed) ==
    IF passed <= BTN_INC_DEC_DELAY_TRANS_TIME
    THEN Map(passed, 0, BTN_INC_DEC_DELAY_TRANS_TIME,
             BTN_INC_DEC_DELAY_HIGH, BTN_INC_DEC_DELAY_LOW) % 65536
    ELSE BTN_INC_DEC_DELAY_HIGH

\* inc_dec(): the new delay, passed = btn_timer - inc_dec_timer.
IncDecDelay(passed) ==
    IF passed <= BTN_INC_DEC_DELAY_TRANS_TIME
    THEN Map(passed, 0, BTN_INC_DEC_DELAY_TRANS_TIME,
             BTN_INC_DEC_DELAY_LOW, BTN_INC_DEC_DELAY_HIGH) % 65536
    ELSE BTN_INC_DEC_DELAY_HIGH

\* inc_dec(); it returns in["down"] \/ in["up"].
IncDec(m, in, millis_current) ==
    IF in["down"] \/ in["up"]
    THEN LET c == [m EXCEPT !.compared = m.inc_dec_delay]
         IN  IF Elapsed(millis_current, m.btn_timer) >= m.inc_dec_delay
             THEN LET timed == [c EXCEPT !.btn_timer = millis_current,
                                         !.inc_dec_delay =
                                             IncDecDelay(Elapsed(millis_current,
                                                                 m.inc_dec_timer))]
                  IN  IF in["down"] THEN DecrementOn(timed, in) ELSE IncrementOn(timed, in)
             ELSE c
    ELSE [m EXCEPT !.inc_dec_timer = millis_current,
                   !.inc_dec_delay = BTN_INC_DEC_DELAY_LOW,
                   !.released = TRUE]

\* mode_clock() with the SET branch taken at every poll of a pressed SET.
SetEdgeAlways(pressed, last) == pressed

\* mode_clock(), mode_set(): if (buttons.get_set()) { if (!set_last) ...
SetEdge(pressed, last) == pressed /\ ~last

\* mode_clock(), from "Set button pressed -> enter set mode" on.
ModeClock(m, in, millis_current) ==
    LET entered ==
            IF SetEdge(in["set"], m.set_last)
            THEN Note([m EXCEPT !.mode = MODE_SET_HOURS,
                                !.set_last = TRUE,
                                !.set_hours = IF ~in["alarm"] THEN rtc_hours ELSE @,
                                !.set_minutes = IF ~in["alarm"] THEN rtc_minutes ELSE @,
                                !.set_step = TRUE],
                      NOTE_SET_MODE, BUTTON_NOTE_PWM)
            ELSE [m EXCEPT !.set_last = in["set"]]
    IN  IF in["down"] \/ in["up"]
        THEN [entered EXCEPT !.mode = MODE_VOLTAGE,
                             !.btn_timer = millis_current,
                             !.inc_dec_timer = millis_current,
                             !.inc_dec_delay = BTN_INC_DEC_DELAY_LOW]
        ELSE IF in["weather"]
        THEN Note([entered EXCEPT !.mode = MODE_WEATHER], NOTE_WEATHER_MODE, BUZZER_PWM_START)
        ELSE entered

\* mode_voltage()
ModeVoltage(m, in, millis_current) ==
    LET edited == IncDec(m, in, millis_current)
    IN  IF ~(in["down"] \/ in["up"]) THEN ReturnToMain(edited) ELSE edited

\* mode_set(), from "Edit time / alarm" on.
ModeSet(m, in, sqw, millis_current) ==
    LET edited == IncDec(m, in, millis_current)
        timed == IF ~(in["down"] \/ in["up"]) /\ sqw
                 THEN [edited EXCEPT !.set_hours = rtc_hours, !.set_minutes = rtc_minutes]
                 ELSE edited
    IN  IF SetEdge(in["set"], timed.set_last)
        THEN LET taken == [timed EXCEPT !.set_last = TRUE, !.set_step = TRUE]
             IN  IF taken.mode = MODE_SET_HOURS
                 THEN Note([taken EXCEPT !.mode = MODE_SET_MINUTES],
                           NOTE_SET_MODE, BUTTON_NOTE_PWM)
                 ELSE ReturnToMain(taken)
        ELSE [timed EXCEPT !.set_last = in["set"]]

\* mode_weather(), "Weather button released -> return to main (time) mode".
ModeWeather(m, in) == IF ~in["weather"] THEN ReturnToMain(m) ELSE m

\* loop() with alarm() called in every mode.
ModeHandlerAlarmAlways(m, in, sqw, millis_current) ==
    LET a == Alarm(m, in, millis_current)
    IN  IF a.mode = MODE_TIME THEN ModeClock(a, in, millis_current)
        ELSE IF a.mode = MODE_VOLTAGE THEN ModeVoltage(a, in, millis_current)
        ELSE IF a.mode = MODE_SET_HOURS \/ a.mode = MODE_SET_MINUTES
        THEN ModeSet(a, in, sqw, millis_current)
        ELSE IF a.mode = MODE_WEATHER THEN ModeWeather(a, in)
        ELSE a

\* loop(), lines 120-128: the handler of the present mode.
ModeHandler(m, in, sqw, millis_current) ==
    IF m.mode = MODE_TIME THEN ModeClock(Alarm(m, in, millis_current), in, millis_current)
    ELSE IF m.mode = MODE_VOLTAGE THEN ModeVoltage(m, in, millis_current)
    ELSE IF m.mode = MODE_SET_HOURS \/ m.mode = MODE_SET_MINUTES
    THEN ModeSet(m, in, sqw, millis_current)
    ELSE IF m.mode = MODE_WEATHER THEN ModeWeather(m, in)
    ELSE m

\* The play_note calls of one iteration, in their order, on the tone engine s.
RECURSIVE PlayNotes(_, _, _)
PlayNotes(s, notes, millis_current) ==
    IF notes = <<>> THEN s
    ELSE PlayNotes(PlayNoteOn(s, Head(notes)[1], Head(notes)[2], millis_current),
                   Tail(notes), millis_current)

\* RTC::sqw_callback, the handler of the 1 Hz interrupt.
SqwIsr ==
    /\ ~rtc_interrupt
    /\ rtc_interrupt' = TRUE
    /\ UNCHANGED <<mode, eeprom_voltage, alarm_vars, edit_vars, eeprom_alarm_vars, rtc_hours,
                   rtc_minutes, loop_pc, sqw_interrupt, loops, loop_call, set_steps, set_seen,
                   dismissed, held, wave_vars>>
    /\ UNCHANGED <<btn_vars, dig_vars, irq_vars, pwr_vars, bz_vars>>

\* loop(), lines 112-118, dt ms after the previous iteration: the pulse flag
\* is polled; when it is set it is cleared and the RTC is read, which then
\* holds the time time.
LoopSqwPoll(dt, time) ==
    /\ loop_pc = "head"
    /\ rtc_interrupt \/ time = <<rtc_hours, rtc_minutes>>
    /\ millis_now' = (millis_now + dt) % MillisModulus
    /\ sqw_interrupt' = rtc_interrupt
    /\ rtc_interrupt' = FALSE
    /\ rtc_hours' = time[1]
    /\ rtc_minutes' = time[2]
    /\ loop_pc' = "body"
    /\ loops' = loops + 1
    /\ loop_call' = [op |-> "head", mode |-> mode, set_edge |-> FALSE, alarm_sw |-> FALSE, rtc_read |-> rtc_interrupt,
                     chime |-> FALSE, set_step |-> FALSE, rtc_set |-> <<>>,
                     compared |-> -1, released |-> FALSE]
    /\ dismissed' = (IF dismissed # time THEN <<>> ELSE dismissed)
    /\ UNCHANGED <<mode, eeprom_voltage, alarm_vars, edit_vars, eeprom_alarm_vars, set_steps,
                   set_seen>>
    /\ UNCHANGED <<time_started, setpoint, setpoint_temp, since_first, reg_vars, voltage_arg>>
    /\ UNCHANGED <<btn_vars, dig_vars, irq_vars, bz_vars>>

\* The same while the wave, the seconds and the time a button is held are
\* not followed.
LoopPoll(dt, time) == LoopSqwPoll(dt, time) /\ UNCHANGED <<wave_vars, held>>

\* The head of one of the first MaxLoops iterations.
LoopHead(dt, time) == loops < MaxLoops /\ LoopPoll(dt, time)

\* loop(), lines 120-130, with in what the getters return: the handler of
\* the mode, then buzzer.decay().
LoopModes(in) ==
    /\ loop_pc = "body"
    /\ LET m == ModeHandler(Main, in, sqw_interrupt, millis_now)
           polled == mode \in {MODE_TIME, MODE_SET_HOURS, MODE_SET_MINUTES}
       IN  /\ mode' = m.mode
           /\ set_last' = m.set_last
           /\ alarm_active' = m.alarm_active
           /\ alarm_hours' = m.alarm_hours
           /\ alarm_minutes' = m.alarm_minutes
           /\ alarm_disabled_hours' = m.alarm_disabled_hours
           /\ alarm_disabled_minutes' = m.alarm_disabled_minutes
           /\ alarm_preview_timer' = m.alarm_preview_timer
           /\ set_hours' = m.set_hours
           /\ set_minutes' = m.set_minutes
           /\ btn_timer' = m.btn_timer
           /\ inc_dec_timer' = m.inc_dec_timer
           /\ inc_dec_delay' = m.inc_dec_delay
           /\ setpoint' = m.setpoint
           /\ voltage_arg' = m.voltage_arg
           /\ eeprom_voltage' = m.eeprom_voltage
           /\ eeprom_alarm_hours' = m.eeprom_alarm_hours
           /\ eeprom_alarm_minutes' = m.eeprom_alarm_minutes
           /\ eeprom_alarm_off' = m.eeprom_alarm_off
           /\ rtc_interrupt' = m.rtc_interrupt
           /\ IF m.chime
              THEN ChimeStateEffect(millis_now, ChimeRandom)
              ELSE UNCHANGED chime_state
           /\ ToneBecomes(DecayOn(PlayNotes(Tone, m.notes, millis_now), millis_now))
           /\ loop_call' = [op |-> "body", mode |-> mode, rtc_read |-> FALSE,
                            alarm_sw |-> in["alarm"],
                            set_edge |-> mode = MODE_TIME /\ SetEdge(in["set"], set_last),
                            chime |-> m.chime, set_step |-> m.set_step,
                            rtc_set |-> m.rtc_set, compared |-> m.compared,
                            released |-> m.released]
           /\ dismissed' = (IF alarm_active /\ ~m.alarm_active THEN <<rtc_hours, rtc_minutes>>
                            ELSE IF m.alarm_edit THEN <<>>
                            ELSE dismissed)
           /\ held' = (IF m.released \/ (mode = MODE_TIME /\ m.mode = MODE_VOLTAGE) THEN 0
                       ELSE held)
           /\ set_steps' = (IF ~in["set"] THEN 0
                            ELSE IF m.set_step THEN set_steps + 1 ELSE set_steps)
           /\ set_seen' = (IF m.set_step THEN "held"
                           ELSE IF polled /\ ~in["set"] /\ set_seen = "held" THEN "released"
                           ELSE set_seen)
    /\ loop_pc' = "head"
    /\ UNCHANGED <<rtc_hours, rtc_minutes, sqw_interrupt, loops>>
    /\ UNCHANGED <<bz_call, bz_calls, chime_call, chime_calls, since_note, notes_since_roll,
                   rolls>>
    /\ UNCHANGED <<millis_now, time_started, setpoint_temp, since_first, reg_vars>>
    /\ UNCHANGED irq_vars

\* The same while the frame and the wave of mode_clock are not followed
\* (they are in SpecWave).
LoopDispatch(in) == LoopModes(in) /\ UNCHANGED <<dig_vars, wave_vars>>

\* The rest of an iteration; the debounce histories are not followed.
LoopBody(in) == LoopDispatch(in) /\ UNCHANGED btn_vars

\* ms between two iterations while a value is edited.
EditTimes == {100, 500}

\* What the getters return while a value is edited: the alarm switch is off,
\* WEATHER released, at most one of UP, DOWN and SET pressed.
EditPresses ==
    {in \in Presses : /\ ~in["alarm"] /\ ~in["weather"]
                      /\ Cardinality({i \in {"up", "down", "set"} : in[i]}) <= 1}

\* The head of one of the first MaxEditLoops iterations; no pulse of the RTC
\* arrives.
EditHead(dt) ==
    /\ loops < MaxEditLoops
    /\ LoopSqwPoll(dt, <<rtc_hours, rtc_minutes>>)
    /\ held' = (IF held + dt > MaxHeld THEN MaxHeld ELSE held + dt)
    /\ UNCHANGED wave_vars

(***************************************************************************)
(* The main loop's calls, store by store, against the interrupt handlers   *)
(***************************************************************************)
\* The main loop is between two calls and interrupts are enabled.
IrqIdle ==
    /\ pc = <<"idle">>
    /\ sreg_i = TRUE
    /\ name_ = FALSE
    /\ set_args = <<>>
    /\ calls = 0

\* get_*: ATOMIC_BLOCK(ATOMIC_RESTORESTATE) saves SREG and disables interrupts.
GetEnter(i) ==
    /\ pc = <<"idle">>
    /\ calls < MaxCalls
    /\ calls' = calls + 1
    /\ sreg_i' = FALSE
    /\ pc' = <<"get", i, "copy">>
    /\ UNCHANGED <<btn_vars, dig_vars, name_, set_args, pwr_vars, bz_vars, main_vars>>

\* get_*: { up_ = up; } and the end of the block, which restores SREG.
GetCopy ==
    /\ pc[1] = "get" /\ pc[3] = "copy"
    /\ name_' = btn[pc[2]]
    /\ sreg_i' = TRUE
    /\ pc' = <<"get", pc[2], "debounce">>
    /\ UNCHANGED <<btn_vars, dig_vars, set_args, calls, pwr_vars, bz_vars, main_vars>>

\* get_*: DEBOUNCING_RETURN(up_, up_state, up_last).
GetDebounce ==
    /\ pc[1] = "get" /\ pc[3] = "debounce"
    /\ LET i == pc[2]
           st == ShiftIn(btn_state[i], name_)
       IN  /\ btn_state' = [btn_state EXCEPT ![i] = st]
           /\ btn_last' = [btn_last EXCEPT ![i] = Vote(st, btn_last[i])]
    /\ pc' = <<"idle">>
    /\ UNCHANGED <<port, pcif, btn, pin_changes, watch, run, run_val>>
    /\ UNCHANGED <<dig_vars, sreg_i, name_, set_args, calls, pwr_vars, bz_vars, main_vars>>

\* Digits::set is entered: no critical section is opened.
SetEnter(digit_1, digit_2, digit_3, digit_4) ==
    /\ pc = <<"idle">>
    /\ calls < MaxCalls
    /\ calls' = calls + 1
    /\ set_args' = <<digit_1, digit_2, digit_3, digit_4>>
    /\ pc' = <<"set", 0>>
    /\ UNCHANGED <<btn_vars, dig_vars, sreg_i, name_, pwr_vars, bz_vars, main_vars>>

\* Digits::set: current_numbers[k] = digit_(k+1), one volatile store.
SetStore ==
    /\ pc[1] = "set"
    /\ LET k == pc[2]
       IN  /\ current_numbers' = [current_numbers EXCEPT ![k] = set_args[k + 1]]
           /\ pc' = IF k + 1 < DIGITS_NUM THEN <<"set", k + 1>> ELSE <<"idle">>
           /\ call' = IF k + 1 < DIGITS_NUM THEN call ELSE <<"set", set_args>>
    /\ UNCHANGED <<cfg_vars, current_separator_state, digit_counter, hw_vars>>
    /\ UNCHANGED <<btn_vars, sreg_i, name_, set_args, calls, pwr_vars, bz_vars, main_vars>>

\* Digits::set_separator: one volatile store.
SetSeparatorCall(state) ==
    /\ pc = <<"idle">>
    /\ calls < MaxCalls
    /\ calls' = calls + 1
    /\ current_separator_state' = state
    /\ call' = <<"set_separator", state>>
    /\ UNCHANGED <<cfg_vars, current_numbers, digit_counter, hw_vars>>
    /\ UNCHANGED <<btn_vars, pc, sreg_i, name_, set_args, pwr_vars, bz_vars, main_vars>>

\* An interrupt handler runs only while the I bit is set (and runs to its end
\* before the main loop continues: the AVR clears I on entry).
TimerIsr == sreg_i /\ Tick
PinChangeIrq(i) == pin_changes < MaxIrqPinChanges /\ PinChange(i)
PinIsr(b) == sreg_i /\ PcintIsr(b)

InitButtons ==
    /\ ButtonsInit
    /\ ConfigShipped
    /\ DigitsInit
    /\ IrqIdle
    /\ PowerIdle
    /\ BuzzerInit
    /\ MainIdle

NextButtons ==
    \/ \E i \in Inputs : PinChange(i)
    \/ \E b \in Banks : PcintIsr(b)
    \/ \E i \in Inputs : Get(i)

SpecButtons == InitButtons /\ [][NextButtons]_vars

\* Digits::write on every position, number, separator state and configuration.
InitWrite ==
    /\ ButtonsIdle
    /\ ConfigInit
    /\ \E d \in 0..255 : current_numbers = SetNumbers(d, d, d, d)
    /\ current_separator_state \in BOOLEAN
    /\ digit_counter \in 0..(DIGITS_NUM - 1)
    /\ spi_sent = <<>>
    /\ latch_pin = 0
    /\ written = <<>>
    /\ w_number = 0
    /\ w_separator = FALSE
    /\ call = <<"init">>
    /\ IrqIdle
    /\ PowerIdle
    /\ BuzzerInit
    /\ MainIdle

SpecWrite == InitWrite /\ [][Tick]_vars

\* The display driver: the orchestration layer's setters and the timer tick.
InitDigits ==
    /\ ButtonsIdle
    /\ ConfigInit
    /\ DigitsInit
    /\ IrqIdle
    /\ PowerIdle
    /\ BuzzerInit
    /\ MainIdle

NextDigits ==
    \/ \E d1, d2, d3, d4 \in DigitChoices : Set(d1, d2, d3, d4)
    \/ \E state \in BOOLEAN : SetSeparator(state)
    \/ Tick

SpecDigits == InitDigits /\ [][NextDigits]_vars

\* The main loop's calls interleaved, store by store, with both handlers.
InitIrq ==
    /\ ButtonsIdle
    /\ ConfigShipped
    /\ DigitsInit
    /\ IrqIdle
    /\ PowerIdle
    /\ BuzzerInit
    /\ MainIdle

NextIrq ==
    \/ \E i \in Inputs : PinChangeIrq(i)
    \/ \E b \in Banks : PinIsr(b)
    \/ TimerIsr
    \/ \E i \in Inputs : GetEnter(i)
    \/ GetCopy
    \/ GetDebounce
    \/ \E d1, d2, d3, d4 \in {9, DIGIT_OFF} : SetEnter(d1, d2, d3, d4)
    \/ SetStore
    \/ \E state \in BOOLEAN : SetSeparatorCall(state)

SpecIrq == InitIrq /\ [][NextIrq]_vars

\* The converter: regulate() in every loop iteration, set_voltage from the
\* modes; the feedback channel reads full scale.
InitPower ==
    /\ ButtonsIdle
    /\ ConfigShipped
    /\ DigitsInit
    /\ IrqIdle
    /\ PowerInit
    /\ BuzzerInit
    /\ MainIdle

NextPower ==
    \/ \E dt \in LoopTimes : Regulate(dt, AdcFullScale)
    \/ \E v \in Voltages : SetVoltage(v)

SpecPower == InitPower /\ [][NextPower]_vars

\* The converter with every feedback reading: the PID controller.
NextPid ==
    \/ \E dt \in PidTimes, adc \in AdcReadings : Regulate(dt, adc)
    \/ \E v \in Voltages : SetVoltage(v)

SpecPid == InitPower /\ [][NextPid]_vars

\* The tone engine: play_note from the modes, decay() in every loop iteration.
InitBuzzer ==
    /\ ButtonsIdle
    /\ ConfigShipped
    /\ DigitsInit
    /\ IrqIdle
    /\ PowerIdle
    /\ BuzzerInit
    /\ MainIdle

NextBuzzer ==
    \/ \E note_number \in Notes, pwm \in Velocities : PlayNote(note_number, pwm)
    \/ \E dt \in DecayTimes : Decay(dt)

SpecBuzzer == InitBuzzer /\ [][NextBuzzer]_vars

\* The alarm chime: play_chime in every loop iteration of an active alarm.
NextChime ==
    \E dt \in ChimeTimes, r_velocity \in VelocityRandoms, r_note \in NoteRandoms,
       r_divider \in DividerRandoms :
        PlayChime(dt, r_velocity, r_note, r_divider)

SpecChime == InitBuzzer /\ [][NextChime]_vars

\* set_frequency on its own: the frequencies requested, in Hz.  The low
\* range goes below the lowest frequency Timer2 can make, the high ones
\* take the cycle count through every prescaler and to the bounds 256 and
\* 2048 of the first two.
FrequencyRequests == (MinHz..MaxHz) \cup {500, 1000, 3907, 4000, 31250, 40000}

\* Buzzer::set_frequency(frequency), lines 130-153.
SetFrequencyCall(frequency) ==
    /\ bz_call.op = "set_frequency" => bz_call.hz # frequency
    /\ LET f == SetFrequency(F32FromInt(frequency), prescaler_bits)
       IN  /\ prescaler_bits' = f.prescaler_bits
           /\ tccr2b' = f.tccr2b
           /\ ocr2a' = f.ocr2a
    /\ bz_call' = [op |-> "set_frequency", hz |-> frequency,
                   cycles |-> Cycles(F32FromInt(frequency)), bits |-> prescaler_bits]
    /\ UNCHANGED <<note_last, attack_pwm_value, decay_timer, ocr2b, duty, bz_calls, chime_vars>>
    /\ UNCHANGED <<btn_vars, dig_vars, irq_vars, pwr_vars, main_vars>>

NextFrequency == \E frequency \in FrequencyRequests : SetFrequencyCall(frequency)

SpecFrequency == InitBuzzer /\ [][NextFrequency]_vars

\* The voltage mode: setup() has restored the setpoint from any stored byte,
\* the up and down buttons step it.
InitVoltage ==
    /\ ButtonsIdle
    /\ ConfigShipped
    /\ DigitsInit
    /\ IrqIdle
    /\ BuzzerInit
    /\ mode = MODE_VOLTAGE
    /\ eeprom_voltage \in 0..255
    /\ LoopIdle
    /\ millis_now = 100
    /\ time_started = 0
    /\ setpoint = RestoreVoltage(eeprom_voltage) % 256
    /\ voltage_arg = RestoreVoltage(eeprom_voltage)
    /\ setpoint_temp = 0
    /\ since_first = -1
    /\ voltage = F32Zero
    /\ pid = PidInit
    /\ ocr1a = SetDutyCycle(0)
    /\ setpoint_used = 0

NextVoltage == Increment \/ Decrement

SpecVoltage == InitVoltage /\ [][NextVoltage]_vars

\* The main loop after setup(), with the 1 Hz interrupt of the RTC.
InitMain ==
    /\ ButtonsIdle
    /\ ConfigShipped
    /\ DigitsInit
    /\ IrqIdle
    /\ BuzzerInit
    /\ mode = MODE_TIME
    /\ \E stored \in StoredBytes, time \in BootRtcTimes :
          /\ eeprom_voltage = stored[1]
          /\ eeprom_alarm_hours = stored[2]
          /\ eeprom_alarm_minutes = stored[3]
          /\ eeprom_alarm_off = stored[4]
          /\ setpoint = RestoreVoltage(stored[1]) % 256
          /\ voltage_arg = RestoreVoltage(stored[1])
          /\ alarm_hours = RestoreAlarmHours(stored[2])
          /\ alarm_minutes = RestoreAlarmMinutes(stored[3])
          /\ alarm_active = RestoreAlarmActive(stored[4])
          /\ rtc_hours = time[1]
          /\ rtc_minutes = time[2]
    /\ set_last = FALSE
    /\ alarm_disabled_hours = 255
    /\ alarm_disabled_minutes = 255
    /\ alarm_preview_timer = 0
    /\ set_hours = 0
    /\ set_minutes = 0
    /\ btn_timer = 0
    /\ inc_dec_timer = 0
    /\ inc_dec_delay = 0
    /\ rtc_interrupt = FALSE
    /\ loop_pc = "head"
    /\ sqw_interrupt = FALSE
    /\ loops = 0
    /\ loop_call = [op |-> "setup", mode |-> MODE_TIME, set_edge |-> FALSE, alarm_sw |-> FALSE, rtc_read |-> TRUE,
                    chime |-> FALSE, set_step |-> FALSE, rtc_set |-> <<>>,
                     compared |-> -1, released |-> FALSE]
    /\ set_steps = 0
    /\ set_seen = "none"
    /\ dismissed = <<>>
    /\ held = 0
    /\ WaveAtBoot
    /\ millis_now = 100
    /\ time_started = 0
    /\ setpoint_temp = 0
    /\ since_first = -1
    /\ voltage = F32Zero
    /\ pid = PidInit
    /\ ocr1a = SetDutyCycle(0)
    /\ setpoint_used = 0

NextMain ==
    \/ SqwIsr
    \/ \E dt \in MainTimes, time \in RtcTimes : LoopHead(dt, time)
    \/ \E in \in Presses : LoopBody(in)

SpecMain == InitMain /\ [][NextMain]_vars

\* The main loop while UP, DOWN and SET are worked.
NextEdit ==
    \/ \E dt \in EditTimes : EditHead(dt)
    \/ \E in \in EditPresses : LoopBody(in)

SpecEdit == InitMain /\ [][NextEdit]_vars

\* The first iterations of loop() after a boot that restored the alarm as
\* active (EEPROM byte 7 = 0), with the getters computed by the debounce
\* filter from the level of the pins; only the alarm switch is worked.
BootStored == <<179, 22, 58, 0>>

BootPorts == {p \in [Inputs -> {0, 1}] : \A i \in Inputs \ {"alarm"} : p[i] = 1}

InitBoot ==
    /\ port \in BootPorts
    /\ pin_changes = 0
    /\ pcif = [b \in Banks |-> FALSE]
    /\ btn = [i \in Inputs |-> (port[i] = 0)]
    /\ btn_state = [i \in Inputs |-> 0]
    /\ btn_last = [i \in Inputs |-> FALSE]
    /\ watch = "alarm"
    /\ run = 0
    /\ run_val = FALSE
    /\ ConfigShipped
    /\ DigitsInit
    /\ IrqIdle
    /\ BuzzerInit
    /\ mode = MODE_TIME
    /\ eeprom_voltage = BootStored[1]
    /\ eeprom_alarm_hours = BootStored[2]
    /\ eeprom_alarm_minutes = BootStored[3]
    /\ eeprom_alarm_off = BootStored[4]
    /\ setpoint = RestoreVoltage(BootStored[1]) % 256
    /\ voltage_arg = RestoreVoltage(BootStored[1])
    /\ alarm_hours = RestoreAlarmHours(BootStored[2])
    /\ alarm_minutes = RestoreAlarmMinutes(BootStored[3])
    /\ alarm_active = RestoreAlarmActive(BootStored[4])
    /\ \E time \in BootRtcTimes : rtc_hours = time[1] /\ rtc_minutes = time[2]
    /\ set_last = FALSE
    /\ alarm_disabled_hours = 255
    /\ alarm_disabled_minutes = 255
    /\ alarm_preview_timer = 0
    /\ set_hours = 0
    /\ set_minutes = 0
    /\ btn_timer = 0
    /\ inc_dec_timer = 0
    /\ inc_dec_delay = 0
    /\ rtc_interrupt = FALSE
    /\ loop_pc = "head"
    /\ sqw_interrupt = FALSE
    /\ loops = 0
    /\ loop_call = [op |-> "setup", mode |-> MODE_TIME, set_edge |-> FALSE, alarm_sw |-> FALSE, rtc_read |-> TRUE,
                    chime |-> FALSE, set_step |-> FALSE, rtc_set |-> <<>>,
                    compared |-> -1, released |-> FALSE]
    /\ set_steps = 0
    /\ set_seen = "none"
    /\ dismissed = <<>>
    /\ held = 0
    /\ WaveAtBoot
    /\ millis_now = 100
    /\ time_started = 0
    /\ setpoint_temp = 0
    /\ since_first = -1
    /\ voltage = F32Zero
    /\ pid = PidInit
    /\ ocr1a = SetDutyCycle(0)
    /\ setpoint_used = 0

BootHead(dt, time) == loops < MaxBootLoops /\ LoopPoll(dt, time)

\* loop(), lines 120-130, in time mode with the buttons released: alarm()
\* and mode_clock poll every input once, each poll through DEBOUNCING_RETURN.
BootBody ==
    LET st == [i \in Inputs |-> ShiftIn(btn_state[i], btn[i])]
        la == [i \in Inputs |-> Vote(st[i], btn_last[i])]
    IN  /\ LoopDispatch(la)
        /\ btn_state' = st
        /\ btn_last' = la
        /\ UNCHANGED <<port, pcif, btn, pin_changes, watch, run, run_val>>

NextBoot ==
    \/ SqwIsr
    \/ \E dt \in MainTimes, time \in RtcTimes : BootHead(dt, time)
    \/ BootBody
    \/ PinChange("alarm")
    \/ PcintIsr(digitalPinToPCICRbit(PinOf("alarm")))

SpecBoot == InitBoot /\ [][NextBoot]_vars

\* The wave of mode_clock: loop() in time mode with the alarm switch off and
\* the buttons released, the frame and the separator included.
WaveTimes == {50, 250}

\* Period of the square wave of the RTC, ms.
SQW_PERIOD == 1000

\* What rtc.get_seconds() returns after a read.
WaveSeconds == {0, 58}

Released == [i \in Inputs |-> FALSE]

\* loop(), lines 112-118, with the seconds that rtc.read() fetches.
WaveHead(dt, time, seconds) ==
    /\ loops < MaxWaveLoops
    /\ LoopSqwPoll(dt, time)
    /\ rtc_interrupt \/ seconds = rtc_seconds
    /\ seconds = 0 \/ time = <<rtc_hours, rtc_minutes>>
    /\ rtc_seconds' = seconds
    /\ wave_since' = (IF wave_since + dt > MaxWaveGap THEN MaxWaveGap ELSE wave_since + dt)
    /\ uptime' = uptime + dt
    /\ UNCHANGED held
    /\ UNCHANGED <<wave_started, wave_counter, wave_positions, wave_timer, separator_timer,
                   wave_call>>

\* mode_clock, lines 184-202: the wave is due for an update.
WaveDue(millis_current) ==
    wave_started /\ Elapsed(millis_current, wave_timer) >= WAVE_PERIOD

\* loop(), lines 120-130, in time mode: alarm() and mode_clock with the wave
\* (lines 184-202), the frame of a new second (222-224), the separator
\* (227-229, 241-244) and the start of a wave at second 58 (231-238).
WaveBody ==
    /\ mode = MODE_TIME
    /\ ~alarm_active
    /\ LoopModes(Released)
    /\ LET due == WaveDue(millis_now)
           positions == IF due THEN [k \in 1..4 |-> WaveStep(wave_positions[k])]
                        ELSE wave_positions
           counter == IF due THEN (wave_counter + 1) % 256 ELSE wave_counter
           ends == due /\ counter = WAVE_END
           running == wave_started /\ ~ends
           starts == sqw_interrupt /\ rtc_seconds = 58 /\ ~running
           now == TimeDigits(rtc_hours, rtc_minutes)
           shown == SetNumbers(now[1], now[2], now[3], now[4])
           wave == WaveDigits(positions)
           second == /\ sqw_interrupt
                     /\ ~running
                     /\ Elapsed(millis_now, alarm_preview_timer) > ALARM_PREVIEW_TIME
           timer == IF sqw_interrupt THEN millis_now ELSE separator_timer
           clear == timer # 0 /\ Elapsed(millis_now, timer) >= SEPARATOR_TIME
       IN  /\ wave_started' = (running \/ starts)
           /\ wave_counter' = (IF starts THEN 0 ELSE counter)
           /\ wave_positions' = (IF starts THEN WaveStart(rtc_hours, rtc_minutes)
                                 ELSE positions)
           /\ wave_timer' = (IF due THEN millis_now ELSE wave_timer)
           /\ current_numbers' = (IF ends \/ second THEN shown
                                  ELSE IF due THEN SetNumbers(wave[1], wave[2], wave[3], wave[4])
                                  ELSE current_numbers)
           /\ current_separator_state' = (IF clear THEN FALSE
                                          ELSE IF sqw_interrupt THEN TRUE
                                          ELSE current_separator_state)
           /\ separator_timer' = (IF clear THEN 0 ELSE timer)
           /\ wave_since' = (IF due THEN 0 ELSE wave_since)
           /\ wave_call' = [updated |-> due, gap |-> wave_since, ended |-> ends,
                            started |-> starts,
                            from |-> IF starts THEN now ELSE wave_call.from]
    /\ call' = <<"mode_clock">>
    /\ UNCHANGED <<cfg_vars, digit_counter, hw_vars, rtc_seconds, uptime>>
    /\ UNCHANGED btn_vars

\* The 1 Hz square wave, its edge at the full seconds since setup().
WaveSqw == uptime % SQW_PERIOD = 0 /\ SqwIsr

NextWave ==
    \/ WaveSqw
    \/ \E dt \in WaveTimes, time \in RtcTimes, seconds \in WaveSeconds : WaveHead(dt, time, seconds)
    \/ WaveBody

\* setup() with an erased EEPROM.
InitWave == InitMain /\ eeprom_voltage = 255

SpecWave == InitWave /\ [][NextWave]_vars

(***************************************************************************)
(* Properties                                                              *)
(***************************************************************************)
BankOf(i) == digitalPinToPCICRbit(PinOf(i))

Mixed(state) == state # 0 /\ state # 65535

\* C1: a poll whose 16-bit history, after the raw sample is shifted in, is
\* neither all ones nor all zeros leaves the input's stable state as it was.
C1_MixedHistoryHolds ==
    [][\A i \in Inputs : Mixed(btn_state'[i]) => btn_last'[i] = btn_last[i]]_vars

\* The stable state is held at true although released samples were shifted in.
C1_Witness ==
    \E i \in Inputs : Mixed(btn_state[i]) /\ btn_state[i] % 2 = 0 /\ btn_last[i]

\* C2: after 16 consecutive polls of an input that all sampled the raw level
\* v, the stable state (the value the 16th poll returns) is v.
C2_SixteenSamplesSettle ==
    run = 16 => btn_last[watch] = run_val

\* A pressed input settled to true and then, released, settled back to false.
C2_Witness ==
    /\ run = 16
    /\ run_val = FALSE
    /\ pin_changes = 2
    /\ port[watch] = 1
    /\ btn_last[watch] = FALSE

\* C3: the position counter is always in 0..3, each tick writes the position
\* that follows the previously written one (mod 4) and leaves the counter one
\* past it, so any 4 consecutive ticks write 0..3 once each in round-robin order.
C3_RoundRobin ==
    /\ digit_counter \in 0..(DIGITS_NUM - 1)
    /\ \A k \in 1..Len(written) : written[k] \in 0..(DIGITS_NUM - 1)
    /\ \A k \in 1..(Len(written) - 1) : written[k + 1] = (written[k] + 1) % DIGITS_NUM
    /\ written # <<>> => digit_counter = (written[Len(written)] + 1) % DIGITS_NUM
    /\ written = <<>> => digit_counter = 0
    /\ Len(written) = DIGITS_NUM => {written[k] : k \in 1..DIGITS_NUM} = 0..(DIGITS_NUM - 1)

\* Four ticks that wrapped around: positions 2, 3, 0, 1.
C3_Witness ==
    written = <<2, 3, 0, 1>> /\ digit_counter = 2

\* The uint16_t mask the latest write() shifted out.
Mask == spi_sent[1] + 256 * spi_sent[2]

BitSet(mask, pin) == Bits(pin) \subseteq Bits(mask)

\* The anode and cathode lines at their active level in the latest mask.
ActiveAnodes == {q \in 0..3 : BitSet(Mask, PINS_ANODES[q + 1]) # ANODES_INVERTED}
ActiveNumbers == {d \in 0..9 : BitSet(Mask, PINS_NUMBERS[d + 1]) # NUMBERS_INVERTED}

\* C4: the mask of write(p, d, _) selects the anode line of p and no other,
\* the cathode line of d and no other when d < 10, and no cathode line when
\* d >= 10, under each polarity of the cathode group.
C4_MaskTruthTable ==
    written # <<>> =>
        /\ ActiveAnodes = {written[Len(written)]}
        /\ ActiveNumbers = (IF w_number < 10 THEN {w_number} ELSE {})

\* A blank (255) written on the last tube with active-low cathodes.
C4_Witness ==
    /\ written = <<3>>
    /\ w_number = 255
    /\ NUMBERS_INVERTED
    /\ ActiveNumbers = {}
    /\ ActiveAnodes = {3}

\* C5: the separator bit of the mask follows the configured polarity: with
\* SEPARATOR_INVERTED it is clear exactly when the separator is requested,
\* without it the bit is set exactly when the separator is requested.
C5_SeparatorPolarity ==
    written # <<>> =>
        (BitSet(Mask, PIN_SEPARATOR) = (IF SEPARATOR_INVERTED THEN ~w_separator ELSE w_separator))

\* C6: every mask a tick shifts out has exactly one anode line active.
C6_OneAnodeActive ==
    written # <<>> => Cardinality(ActiveAnodes) = 1

\* A tick after the frame and the separator were set.
C6_Witness ==
    /\ Len(written) = DIGITS_NUM
    /\ call = <<"tick">>
    /\ w_number = 9
    /\ w_separator
    /\ Cardinality(ActiveAnodes) = 1

\* C7: set and set_separator change nothing but the stored frame / separator
\* flag (no transfer, no latch strobe, no counter move), and set called with
\* the stored values changes nothing at all.
C7_SettersOnlyStore ==
    [][/\ call'[1] = "set" =>
            UNCHANGED <<cfg_vars, current_separator_state, digit_counter, hw_vars>>
       /\ call'[1] = "set_separator" =>
            UNCHANGED <<cfg_vars, current_numbers, digit_counter, hw_vars>>
       /\ (call'[1] = "set" /\ call'[2] = <<current_numbers[0], current_numbers[1],
                                            current_numbers[2], current_numbers[3]>>) =>
            UNCHANGED <<frame_vars, digit_counter, hw_vars>>]_vars

\* After set the shift registers still show the number written by the tick before.
C7_Witness ==
    /\ call[1] = "set"
    /\ written # <<>>
    /\ latch_pin = 1
    /\ w_number = 9
    /\ current_numbers[written[Len(written)]] = DIGIT_OFF

\* C8: the pin-change handler overwrites only raw levels, and only of inputs on
\* the bank that fired; it never changes a history or a stable state; and the
\* raw levels change in no other step (a poll never changes them).
C8_IsrOnlySamples ==
    [][/\ \A b \in Banks : (pcif[b] /\ ~pcif'[b]) =>
            /\ UNCHANGED <<btn_state, btn_last>>
            /\ \A i \in Inputs : btn'[i] # btn[i] => BankOf(i) = b
       /\ btn' # btn => \E b \in Banks : pcif[b] /\ ~pcif'[b]
       /\ (btn_state' # btn_state \/ btn_last' # btn_last) => btn' = btn]_vars

\* The handler has cleared a raw level after the last poll shifted in a pressed
\* sample; the history still ends in that sample.
C8_Witness ==
    \E i \in Inputs :
        ~btn[i] /\ port[i] = 1 /\ btn_state[i] % 2 = 1 /\ ~pcif[BankOf(i)]

\* Digits::set has made some, but not all, of the stores of one frame.
InsideFrameUpdate == pc[1] = "set" /\ pc[2] \in 1..(DIGITS_NUM - 1)

\* A getter is copying the raw level.
InsideRawCopy == pc[1] = "get" /\ pc[3] = "copy"

\* A step of the multiplex handler, which reads the frame; a step of a
\* pin-change handler, which writes the raw levels.
TimerHandlerRuns == digit_counter' # digit_counter
PinHandlerRuns == \E b \in Banks : pcif[b] /\ ~pcif'[b]

\* C9: every main-loop access to data shared with an interrupt handler is made
\* with interrupts disabled, so the handler that shares the data never runs
\* between the parts of one main-loop access to it.
C9_SharedAccessAtomic ==
    [][/\ TimerHandlerRuns => ~InsideFrameUpdate
       /\ PinHandlerRuns => ~InsideRawCopy]_vars

\* The soft-start profile of target 180: the effective setpoint sp at t ms
\* after the first regulate() call.
Profile180(t, sp) ==
    /\ t = 0 => sp = 0
    /\ t = 500 => sp = 90
    /\ t >= CONVERTER_SOFT_START_TIME => sp = 180

\* C10: with target 180 and a 1000 ms ramp, the effective setpoint regulate()
\* computes t ms after the first regulate() call is 0 at t = 0, 90 at t = 500
\* and exactly 180 at every t >= 1000.  (A step that keeps the target is a
\* regulate() call.)
C10_SoftStartProfile ==
    [][(setpoint' = setpoint /\ setpoint = 180) => Profile180(since_first', setpoint_temp')]_vars

\* A step of regulate() (set_voltage alone changes the target and its argument).
RegulateStep == setpoint' = setpoint /\ voltage_arg' = voltage_arg

\* C11 as claimed: while the ramp lasts, every regulate() call leaves the
\* effective setpoint at or above the one of the previous call and at or
\* below the target.
C11_RampMonotone ==
    [][(RegulateStep /\ since_first <= CONVERTER_SOFT_START_TIME)
       => (setpoint_temp' >= setpoint_temp /\ setpoint_temp' <= setpoint)]_vars

\* C11, amended: while the ramp lasts, a regulate() call that finds the target
\* not lowered since the previous call leaves the effective setpoint at or
\* above the one of the previous call and at or below the target.
C11_RampMonotoneTargetKept ==
    [][(RegulateStep /\ since_first <= CONVERTER_SOFT_START_TIME /\ setpoint >= setpoint_used)
       => (setpoint_temp' >= setpoint_temp /\ setpoint_temp' <= setpoint)]_vars

\* The ramp has risen above 0 and is still below the target it is computed for.
C11_Witness ==
    /\ since_first > 0
    /\ since_first < CONVERTER_SOFT_START_TIME
    /\ setpoint_used = setpoint
    /\ setpoint_temp > 0
    /\ setpoint_temp < setpoint

\* C12: once CONVERTER_SOFT_START_TIME ms have passed since the first
\* regulate() call, every regulate() call leaves the effective setpoint equal
\* to the target of that moment: the ramp is never entered again.
C12_SteadyAfterRamp ==
    [][(RegulateStep /\ since_first' >= CONVERTER_SOFT_START_TIME)
       => setpoint_temp' = setpoint']_vars

\* C13: get_voltage() returns the argument of the latest set_voltage(), and a
\* set_voltage() step leaves the start marker, the effective setpoint, the
\* measured voltage, the PID state and the compare register as they were.
C13_SetVoltageFrame ==
    [][/\ GetVoltage' = voltage_arg'
       /\ (~RegulateStep => UNCHANGED <<time_started, setpoint_temp, voltage, pid, ocr1a>>)]_vars

\* set_voltage() has changed the target after the ramp has started and the
\* controller has wound up.
C13_Witness ==
    /\ since_first > 0
    /\ time_started # 0
    /\ setpoint_temp > 0
    /\ pid.integral # 0
    /\ setpoint # setpoint_used
    /\ GetVoltage = voltage_arg

\* C14: the PID output handed to set_duty_cycle is within
\* [PID_MIN_OUT, PID_MAX_OUT] and the compare value in OCR1A is at most half
\* of CONVERTER_PERIOD_CYCLES.
C14_DutyWithinHalfPeriod ==
    /\ pid.out >= PID_MIN_OUT * PidScale
    /\ pid.out <= PID_MAX_OUT * PidScale
    /\ DutyCycle(pid) <= PID_MAX_OUT
    /\ ocr1a <= CONVERTER_PERIOD_CYCLES \div 2

\* The proportional term alone is far above PID_MAX_OUT: the output is clamped
\* and the compare value is half of the period.
C14_Witness ==
    /\ since_first >= CONVERTER_SOFT_START_TIME
    /\ PID_P_GAIN * pid.error > PID_MAX_OUT * PidScale
    /\ pid.out = PID_MAX_OUT * PidScale
    /\ ocr1a = CONVERTER_PERIOD_CYCLES \div 2

\* C15: after every regulate() call the integral term is within
\* [PID_MIN_INTEGRAL, PID_MAX_INTEGRAL], and a call that finds the error zero
\* leaves the integral term as it was.
C15_IntegralClamped ==
    [][/\ pid.integral' >= PID_MIN_INTEGRAL * PidScale
       /\ pid.integral' <= PID_MAX_INTEGRAL * PidScale
       /\ (pid.error' = 0 => pid.integral' = pid.integral)]_vars

\* The integral term has reached PID_MAX_INTEGRAL and a later regulate() call
\* has found the error zero.
C15_Witness ==
    /\ since_first > 0
    /\ pid.error = 0
    /\ pid.integral = PID_MAX_INTEGRAL * PidScale

\* C16: after setup() has restored the converter setpoint, and after every
\* increment and decrement of the voltage mode, the target setpoint is within
\* [CONVERTER_SETPOINT_MIN, CONVERTER_SETPOINT_MAX].
C16_SetpointInRange ==
    /\ GetVoltage >= CONVERTER_SETPOINT_MIN
    /\ GetVoltage <= CONVERTER_SETPOINT_MAX

\* The up button has stepped the setpoint to the upper limit (the next step
\* would leave the range).
C16_Witness ==
    /\ mode = MODE_VOLTAGE
    /\ GetVoltage = CONVERTER_SETPOINT_MAX
    /\ eeprom_voltage = CONVERTER_SETPOINT_MAX
    /\ note_last = NOTE_INCREMENT

\* A step of play_note() and a step of decay() in SpecBuzzer.
PlayNoteStep == bz_calls' = bz_calls + 1 /\ bz_call'.op = "play_note"
DecayStep == bz_calls' = bz_calls + 1 /\ bz_call'.op = "decay"

\* C17 as claimed: play_note(n, v) right after play_note(n, ...) leaves the
\* prescaler and TOP alone, sets the duty cycle to v and resets the decay
\* start timestamp.
C17_SameNoteSetsVelocity ==
    [][(PlayNoteStep /\ bz_call.op = "play_note" /\ bz_call'.note = note_last)
       => /\ ~bz_call'.frequency
          /\ UNCHANGED timer2_vars
          /\ duty' = bz_call'.pwm
          /\ decay_timer' = millis_now']_vars

\* C17, amended: play_note(n, v) with n the note of the latest play_note call
\* leaves the prescaler and TOP alone, sets the duty cycle to v, or to 0 when
\* n is 0, and resets the decay start timestamp.
C17_SameNoteKeepsTimer ==
    [][(PlayNoteStep /\ bz_call'.note = note_last)
       => /\ ~bz_call'.frequency
          /\ UNCHANGED timer2_vars
          /\ duty' = (IF bz_call'.note # 0 THEN bz_call'.pwm ELSE 0)
          /\ ocr2b' = (ocr2a * duty') \div 256
          /\ decay_timer' = millis_now'
          /\ note_last' = note_last]_vars

\* Note 69 has been played again while the tone of its first call was decaying.
C17_Witness ==
    /\ bz_call.op = "play_note"
    /\ bz_call.note = 69
    /\ ~bz_call.frequency
    /\ duty = bz_call.pwm
    /\ decay_timer = millis_now
    /\ millis_now > 100

\* C18: play_note(0, v) sets the attack velocity and the duty cycle to 0 and
\* leaves the prescaler and TOP alone.
C18_SilenceKeepsTimer ==
    [][(PlayNoteStep /\ bz_call'.note = 0)
       => /\ attack_pwm_value' = 0
          /\ duty' = 0
          /\ ocr2b' = 0
          /\ ~bz_call'.frequency
          /\ UNCHANGED timer2_vars]_vars

\* play_note(0, 100) has silenced a sounding note 69, whose prescaler and TOP
\* are still set.
C18_Witness ==
    /\ bz_call.op = "play_note"
    /\ bz_call.note = 0
    /\ bz_call.pwm = 100
    /\ attack_pwm_value = 0
    /\ duty = 0
    /\ prescaler_bits = PRESCALER_128
    /\ ocr2a = 142

\* The duty the claim gives e ms after play_note(note, attack): the linear
\* interpolation from attack to 0 (to the integer, either way) below
\* DECAY_TIME, 0 from DECAY_TIME on.
Interpolated(e, attack, d) ==
    IF e >= DECAY_TIME THEN d = 0
    ELSE /\ d * DECAY_TIME - attack * (DECAY_TIME - e) < DECAY_TIME
         /\ attack * (DECAY_TIME - e) - d * DECAY_TIME < DECAY_TIME

\* C19: after play_note(69, 100) the decay() calls 0, 200, 400 and 401 ms
\* later leave the duty at 100, 50, 0 and 0; every decay() call e ms after a
\* play_note leaves the interpolated duty, 0 from 400 ms on.
C19_DecayProfile ==
    [][(DecayStep /\ bz_call'.elapsed >= 0)
       => /\ Interpolated(bz_call'.elapsed, attack_pwm_value, duty')
          /\ (note_last = 69 /\ attack_pwm_value = 100)
             => /\ bz_call'.elapsed = 0 => duty' = 100
                /\ bz_call'.elapsed = 200 => duty' = 50
                /\ bz_call'.elapsed = 400 => duty' = 0
                /\ bz_call'.elapsed = 401 => duty' = 0]_vars

\* C20: once decay() has forced the duty cycle of a tone to 0 after the decay
\* duration, every later decay() call leaves it at 0 and writes nothing (a
\* play_note in between starts a new tone).
C20_DecayedStaysSilent ==
    [][(/\ DecayStep
        /\ bz_call.op = "decay"
        /\ bz_call.elapsed >= DECAY_TIME
        /\ attack_pwm_value > 0
        /\ duty = 0)
       => (duty' = 0 /\ ~bz_call'.duty)]_vars

\* A step of play_chime() in SpecChime.
PlayChimeStep == chime_calls' = chime_calls + 1

\* The dividers of the claims.
Dividers == {1, 2, 4, 8}

\* C21 as claimed: whenever play_chime tests whether a note is due, and
\* whenever it computes a note interval, the divider in effect is in
\* {1, 2, 4, 8}.
C21_DividerInTable ==
    chime_calls > 0
        => /\ chime_call.divider \in Dividers
           /\ chime_call.rolled => chime_call.drawn \in Dividers

\* C21, amended: whenever play_chime computes a note interval, and whenever
\* it tests whether a note is due after the first chime note, the divider in
\* effect is in {1, 2, 4, 8}; up to the first chime note the divider and the
\* interval are 0.
C21_DividerInTableOnceDrawn ==
    chime_calls > 0
        => /\ chime_call.rolled => chime_call.drawn \in Dividers
           /\ IF chime_call.since >= 0
              THEN chime_call.divider \in Dividers
              ELSE chime_call.divider = 0 /\ chime_call.duration = 0
           /\ note_duration_divider \in Dividers
           /\ since_note >= 0

\* play_chime has tested a note against the interval of divider 8 and has
\* then drawn divider 4.
C21_Witness ==
    /\ chime_call.since >= 0
    /\ chime_call.divider = 8
    /\ chime_call.rolled
    /\ chime_call.drawn = 4
    /\ note_duration_divider = 4

\* C22 as claimed: the divider is drawn once every 16 chime notes.
C22_RerollEvery16 ==
    [][(PlayChimeStep /\ chime_call'.emitted /\ rolls >= 1)
       => (chime_call'.rolled <=> notes_since_roll + 1 = 16)]_vars

\* C22, amended: the divider is drawn once every d + 1 chime notes, d being
\* the divider in effect: between two consecutive draws exactly d + 1 notes
\* (2, 3, 5 or 9) are emitted.
C22_RerollEveryDividerPlusOne ==
    [][(PlayChimeStep /\ chime_call'.emitted /\ rolls >= 1)
       => /\ chime_call'.rolled <=> notes_since_roll + 1 = note_duration_divider + 1
          /\ notes_since_roll + 1 <= note_duration_divider + 1
          /\ note_duration_divider \in Dividers]_vars

\* A divider has been drawn with the ninth note after the draw of divider 8.
C22_Witness ==
    /\ chime_call.emitted
    /\ chime_call.rolled
    /\ chime_call.divider = 8
    /\ notes_since_roll = 0
    /\ note_counter = 0
    /\ rolls >= 2
    /\ chime_calls >= 10

\* The interval of the claim in whole ms: 60000 ms / BPM / divider.
Interval(divider) == 60000 \div (ALARM_CHIME_BPM * divider)

\* C23: play_chime emits a note only in a call where the time since the
\* previous chime note, measured and true, is at least the interval in effect
\* (60000 ms / BPM / divider, in whole ms).
C23_NoteOnlyWhenDue ==
    [][(PlayChimeStep /\ chime_call'.emitted /\ since_note >= 0)
       => /\ chime_call'.elapsed >= chime_note_duration
          /\ chime_call'.since >= chime_note_duration
          /\ chime_call'.since >= chime_call'.elapsed \/ chime_call'.since = MaxSilence
          /\ chime_note_duration = Interval(note_duration_divider)]_vars

\* A note has been emitted exactly one interval of divider 1 (666 ms) after
\* the previous one.
C23_Witness ==
    /\ chime_call.emitted
    /\ chime_call.divider = 1
    /\ chime_call.duration = 666
    /\ chime_call.since = 666
    /\ chime_call.elapsed = 666

\* C24: every velocity play_chime passes to play_note is within
\* [BUZZER_PWM_START - BUZZER_PWM_DEVIATION, BUZZER_PWM_START + BUZZER_PWM_DEVIATION].
C24_VelocityWithinDeviation ==
    (chime_calls > 0 /\ chime_call.emitted)
        => /\ chime_call.velocity >= BUZZER_PWM_START - BUZZER_PWM_DEVIATION
           /\ chime_call.velocity <= BUZZER_PWM_START + BUZZER_PWM_DEVIATION

\* C26: in the tone decay, the chime interval and the soft-start ramp, a call
\* that finds millis() below the stored timestamp resynchronises the
\* timestamp to millis() before the elapsed time is used (decay() may then
\* disarm its timer).
C26_WrapResynchronises ==
    [][/\ (RegulateStep /\ millis_now' < time_started) => time_started' = millis_now'
       /\ (DecayStep /\ millis_now' < decay_timer) => decay_timer' \in {millis_now', 0}
       /\ (PlayChimeStep /\ millis_now' < chime_timer) => chime_timer' = millis_now']_vars

(***************************************************************************)
(* The main loop.                                                          *)
(***************************************************************************)
\* A step of loop() from the poll of the pulse flag to the mode dispatch.
LoopHeadStep == loop_pc = "head" /\ loop_pc' = "body"

\* A step of loop() from the mode dispatch to the end of the iteration.
LoopBodyStep == loop_pc = "body" /\ loop_pc' = "head"

\* C25, as stated: in an iteration through which the alarm is active,
\* play_chime is called, whichever mode the clock is in.
C25_ChimeInEveryMode ==
    [][(LoopBodyStep /\ alarm_active /\ alarm_active') => loop_call'.chime]_vars

\* C25, amended: play_chime is called in exactly the iterations that start
\* in time mode and in which alarm() leaves the alarm active; an iteration
\* that starts in voltage, set-hours, set-minutes or weather mode does not
\* call it.
C25_ChimeInTimeMode ==
    [][LoopBodyStep => (loop_call'.chime <=> (mode = MODE_TIME /\ alarm_active'))]_vars

\* C25: an iteration in time mode has called play_chime, which started the
\* chime's timer and counted a note.
C25_Witness ==
    /\ loop_call.op = "body"
    /\ loop_call.mode = MODE_TIME
    /\ loop_call.chime
    /\ alarm_active
    /\ note_counter > 0

\* C27, as stated: after each change of the setpoint, the alarm hour, the
\* alarm minute or the alarm flag, every one of the four slots holds its
\* value (slot 7 is 0 exactly when the alarm is active).
C27_AllSlotsAfterChange ==
    [][(/\ LoopBodyStep
        /\ \/ setpoint' # setpoint
           \/ alarm_hours' # alarm_hours
           \/ alarm_minutes' # alarm_minutes
           \/ alarm_active' # alarm_active)
       => (/\ eeprom_voltage' = setpoint'
           /\ eeprom_alarm_hours' = alarm_hours'
           /\ eeprom_alarm_minutes' = alarm_minutes'
           /\ (eeprom_alarm_off' = 0 <=> alarm_active'))]_vars

\* C27, amended: a change of the setpoint, the alarm hour, the alarm minute
\* or the alarm flag is written to the slot of the changed value in the same
\* iteration: slot 4 = setpoint, slot 5 = alarm hour, slot 6 = alarm minute,
\* slot 7 = 0 for an active alarm and 1 for an inactive one.
C27_ChangedSlotWritten ==
    [][LoopBodyStep =>
        /\ setpoint' # setpoint => eeprom_voltage' = setpoint'
        /\ alarm_hours' # alarm_hours => eeprom_alarm_hours' = alarm_hours'
        /\ alarm_minutes' # alarm_minutes => eeprom_alarm_minutes' = alarm_minutes'
        /\ alarm_active' # alarm_active =>
               eeprom_alarm_off' = (IF alarm_active' THEN 0 ELSE 1)]_vars

\* C27: booted with an erased EEPROM (alarm off), the alarm has become active
\* and slot 7 holds 0, while slot 5 still holds the erased byte.
C27_Witness ==
    /\ alarm_active
    /\ eeprom_alarm_off = 0
    /\ eeprom_alarm_hours = 255
    /\ loop_call.op = "body"

\* C28, as stated: the pulse flag is cleared only by the poll at the head of
\* an iteration, which reports it as sqw_interrupt.
C28_ClearedOnlyWhenReported ==
    [][(rtc_interrupt /\ ~rtc_interrupt') => (LoopHeadStep /\ sqw_interrupt')]_vars

\* C29: an iteration takes a SET branch only as the first one of the
\* present press of SET and only when, since the branch taken before, SET
\* was polled as released.
C29_OneStepPerPress ==
    [][(LoopBodyStep /\ loop_call'.set_step) => (set_steps' = 1 /\ set_seen # "held")]_vars

\* C29: SET is still pressed in an iteration of set-hours mode after the one
\* that took the branch, and no further branch is taken.
C29_Witness ==
    /\ set_steps = 1
    /\ loop_call.op = "body"
    /\ loop_call.mode = MODE_SET_HOURS
    /\ ~loop_call.set_step
    /\ mode = MODE_SET_HOURS

\* C30, as stated: an iteration in time mode that sees SET pressed with
\* set_last clear ends in set-hours mode.
C30_SetEdgeEntersSetHours ==
    [][(LoopBodyStep /\ loop_call'.set_edge) => mode' = MODE_SET_HOURS]_vars

(***************************************************************************)
(* The alarm.                                                              *)
(***************************************************************************)
\* C31: alarm_active changes from false to true only in an iteration in time
\* mode (the one that calls alarm()) whose poll of the alarm switch finds it
\* on and in which the RTC shows the alarm hours and minutes.
C31_ActivatedOnlyAtAlarmTime ==
    [][(~alarm_active /\ alarm_active') =>
        /\ LoopBodyStep
        /\ mode = MODE_TIME
        /\ loop_call'.alarm_sw
        /\ rtc_hours = alarm_hours
        /\ rtc_minutes = alarm_minutes]_vars

\* C31: the alarm has been activated by an iteration in time mode with the
\* switch on at the alarm time.
C31_Witness ==
    /\ alarm_active
    /\ loop_call.op = "body"
    /\ loop_call.mode = MODE_TIME
    /\ loop_call.alarm_sw
    /\ rtc_hours = alarm_hours
    /\ rtc_minutes = alarm_minutes
    /\ eeprom_alarm_off = 0

\* C32: alarm_active changes from true to false only in an iteration in time
\* mode whose poll of the alarm switch finds it off, and that iteration
\* records the hours and minutes of the RTC as the dismissed time; every
\* such iteration with the alarm active ends with it inactive.
C32_ActiveUntilSwitchedOff ==
    [][/\ (alarm_active /\ ~alarm_active') =>
            /\ LoopBodyStep
            /\ mode = MODE_TIME
            /\ ~loop_call'.alarm_sw
            /\ alarm_disabled_hours' = rtc_hours
            /\ alarm_disabled_minutes' = rtc_minutes
       /\ (LoopBodyStep /\ mode = MODE_TIME /\ alarm_active /\ ~loop_call'.alarm_sw) =>
            ~alarm_active']_vars

\* C32: the alarm has been dismissed by a poll of the switch as off and the
\* dismissed time is the time of the RTC.
C32_Witness ==
    /\ ~alarm_active
    /\ loop_call.op = "body"
    /\ loop_call.mode = MODE_TIME
    /\ ~loop_call.alarm_sw
    /\ alarm_disabled_hours = rtc_hours
    /\ alarm_disabled_minutes = rtc_minutes
    /\ eeprom_alarm_off = 1

\* C33: the alarm is not activated while the RTC still shows the hours and
\* minutes at which it was dismissed and increment/decrement has not edited
\* the alarm since.
C33_NoReactivationInDismissedMinute ==
    [][(~alarm_active /\ alarm_active') => dismissed # <<rtc_hours, rtc_minutes>>]_vars

\* C33: after the dismissal the switch is polled as on again in time mode,
\* in the dismissed minute, which is the alarm time, and the alarm stays
\* inactive.
C33_Witness ==
    /\ dismissed = <<rtc_hours, rtc_minutes>>
    /\ loop_call.op = "body"
    /\ loop_call.mode = MODE_TIME
    /\ loop_call.alarm_sw
    /\ rtc_hours = alarm_hours
    /\ rtc_minutes = alarm_minutes
    /\ ~alarm_active

\* C35, as stated: an iteration, in whatever mode, that finds the switch on
\* and the RTC at the alarm time, the alarm not dismissed in that minute,
\* ends with the alarm active.
C35_ActivatedInEveryMode ==
    [][(/\ LoopBodyStep
        /\ loop_call'.alarm_sw
        /\ rtc_hours = alarm_hours' /\ rtc_minutes = alarm_minutes'
        /\ dismissed # <<rtc_hours, rtc_minutes>>)
       => alarm_active']_vars

\* C35, amended: an iteration in time mode that finds the switch on and the
\* RTC at the alarm time, which is not the dismissed time alarm() holds,
\* ends with the alarm active; an iteration in another mode leaves
\* alarm_active as it is.
C35_ActivatedInTimeMode ==
    [][LoopBodyStep =>
        /\ (/\ mode = MODE_TIME
            /\ loop_call'.alarm_sw
            /\ rtc_hours = alarm_hours /\ rtc_minutes = alarm_minutes
            /\ ~(rtc_hours = alarm_disabled_hours /\ rtc_minutes = alarm_disabled_minutes))
           => alarm_active'
        /\ mode # MODE_TIME => alarm_active' = alarm_active]_vars

\* C35: the alarm was activated in time mode while WEATHER was held, which
\* took the clock to weather mode in the same iteration.
C35_Witness ==
    /\ alarm_active
    /\ loop_call.op = "body"
    /\ loop_call.mode = MODE_TIME
    /\ loop_call.alarm_sw
    /\ loop_call.chime
    /\ mode = MODE_WEATHER

\* C39, as stated: the hours and minutes given to rtc.set are those of the
\* RTC, but for the edited field, which is one step away or, at its limit,
\* the same.
C39_RtcWriteKeepsTime ==
    [][(LoopBodyStep /\ loop_call'.rtc_set # <<>>) =>
        LET w == loop_call'.rtc_set
        IN  IF mode = MODE_SET_HOURS
            THEN /\ w[2] = rtc_minutes
                 /\ \/ w[1] = rtc_hours + 1
                    \/ w[1] = rtc_hours - 1
                    \/ (w[1] = rtc_hours /\ rtc_hours \in {0, 23})
            ELSE /\ w[1] = rtc_hours
                 /\ \/ w[2] = rtc_minutes + 1
                    \/ w[2] = rtc_minutes - 1
                    \/ (w[2] = rtc_minutes /\ rtc_minutes \in {0, 59})]_vars

(***************************************************************************)
(* The repeat delay of UP and DOWN.                                        *)
(***************************************************************************)
RepeatDelays == BTN_INC_DEC_DELAY_HIGH..BTN_INC_DEC_DELAY_LOW

\* C38, as stated: the delay inc_dec compares with is within 70..250, it is
\* 250 after a poll that finds UP and DOWN released, an iteration in which
\* one is held does not increase it, and a repeat after 2000 ms of holding
\* sets it to 70.
C38_DelayWithinRange ==
    [][LoopBodyStep =>
        /\ loop_call'.compared # -1 => loop_call'.compared \in RepeatDelays
        /\ loop_call'.released => inc_dec_delay' = BTN_INC_DEC_DELAY_LOW
        /\ loop_call'.compared # -1 => inc_dec_delay' <= inc_dec_delay
        /\ (/\ loop_call'.compared # -1
            /\ Elapsed(millis_now, btn_timer) >= inc_dec_delay
            /\ held >= BTN_INC_DEC_DELAY_TRANS_TIME)
           => inc_dec_delay' = BTN_INC_DEC_DELAY_HIGH]_vars

\* C38, amended: the same from the first poll with UP and DOWN released or
\* the first entry to voltage mode on; until then the delay is 0, the value
\* of the zero-initialised global, and the first repeat raises it.
C38_DelayWithinRangeOnceSet ==
    [][LoopBodyStep =>
        /\ loop_call'.compared # -1 => loop_call'.compared \in RepeatDelays \cup {0}
        /\ inc_dec_delay # 0 => inc_dec_delay' \in RepeatDelays
        /\ loop_call'.released => inc_dec_delay' = BTN_INC_DEC_DELAY_LOW
        /\ (loop_call'.compared # -1 /\ inc_dec_delay # 0) => inc_dec_delay' <= inc_dec_delay
        /\ (/\ loop_call'.compared # -1
            /\ Elapsed(millis_now, btn_timer) >= inc_dec_delay
            /\ held >= BTN_INC_DEC_DELAY_TRANS_TIME)
           => inc_dec_delay' = BTN_INC_DEC_DELAY_HIGH]_vars

\* C38: a button has been held for 2000 ms or more and inc_dec has compared
\* the elapsed time with the shortest delay.
C38_Witness ==
    /\ loop_call.op = "body"
    /\ loop_call.compared = BTN_INC_DEC_DELAY_HIGH
    /\ held >= BTN_INC_DEC_DELAY_TRANS_TIME
    /\ inc_dec_delay = BTN_INC_DEC_DELAY_HIGH

(***************************************************************************)
(* The restored alarm.                                                     *)
(***************************************************************************)
\* C34: after a boot that restored the alarm as active, while the alarm
\* switch has been on (pin low) since boot without a change, the alarm is
\* active and EEPROM byte 7 still holds 0.
C34_RestoredAlarmStaysActive ==
    (port["alarm"] = 0 /\ pin_changes = 0) => (alarm_active /\ eeprom_alarm_off = 0)

(***************************************************************************)
(* The wave.                                                               *)
(***************************************************************************)
\* C36, as stated: a mode_clock call that updates the wave moves each of the
\* four positions one step modulo 10 and comes 100 ms or more after the
\* update before; the call that ends the wave finds 20 updates made, leaves
\* wave_started false and the frame at the hours and minutes of the RTC;
\* every position is in 0..9.
C36_WaveOfTwentyUpdates ==
    [][LoopBodyStep =>
        /\ wave_call'.updated =>
              /\ wave_call'.gap >= WAVE_PERIOD
              /\ ~wave_call'.started =>
                    \A k \in 1..4 : wave_positions'[k] = (wave_positions[k] + 1) % 10
        /\ wave_call'.ended =>
              /\ wave_counter = 20
              /\ ~wave_call'.started => ~wave_started'
              /\ LET now == TimeDigits(rtc_hours, rtc_minutes)
                 IN  current_numbers' = SetNumbers(now[1], now[2], now[3], now[4])
        /\ \A k \in 1..4 : wave_positions'[k] \in 0..9]_vars

\* C37: the two tables are inverse permutations of 0..9; a wave that has not
\* been updated yet stands at the digits it started from, and its first
\* update shows, on each tube, the digit one step above the one it started
\* from.
C37_TablesInverse ==
    /\ \A d \in 0..9 : PositionToNumber(NumberToPosition(d)) = d
    /\ \A p \in 0..9 : NumberToPosition(PositionToNumber(p)) = p
    /\ (wave_started /\ wave_counter = 0) =>
          \A k \in 1..4 : PositionToNumber(wave_positions[k]) = wave_call.from[k]
    /\ (wave_started /\ wave_counter = 1 /\ wave_call.updated) =>
          \A k \in 1..4 :
              current_numbers[k - 1] = PositionToNumber(WaveStep(NumberToPosition(wave_call.from[k])))

\* C37: a wave started at 22:58 by the pulse of second 58 has made its first
\* update and shows 8 8 1 0, one step above 2 2 5 8.
C37_Witness ==
    /\ loop_call.op = "body"
    /\ loops > 1
    /\ wave_started
    /\ wave_counter = 1
    /\ wave_call.updated
    /\ wave_call.from = <<2, 2, 5, 8>>
    /\ current_numbers = SetNumbers(8, 8, 1, 0)

(***************************************************************************)
(* The prescaler of Timer2.                                                *)
(***************************************************************************)
\* The prescalers of Timer2 by their clock-select bits 1..7.
PrescalerValues == <<1, 8, 32, 64, 128, 256, 1024>>

\* cycles / prescaler < 256 for the prescaler of clock-select bits i.
Fits(cycles, i) == cycles \div PrescalerValues[i] < RESOLUTION

\* The registers hold the smallest prescaler that fits and TOP for it.
SmallestPrescalerWritten(cycles) ==
    \E i \in 1..7 :
        /\ Fits(cycles, i)
        /\ \A j \in 1..(i - 1) : ~Fits(cycles, j)
        /\ prescaler_bits' = i
        /\ tccr2b' = WGM22 + i
        /\ ocr2a' = cycles \div PrescalerValues[i]
        /\ cycles \div PrescalerValues[i] < 256

SetFrequencyStep == bz_call'.op = "set_frequency" /\ bz_call' # bz_call

\* C40, as stated: after set_frequency the registers hold the smallest
\* prescaler for which cycles / prescaler < 256, and TOP = cycles / prescaler,
\* below 256, whatever the cycle count.
C40_SmallestPrescaler ==
    [][SetFrequencyStep => SmallestPrescalerWritten(bz_call'.cycles)]_vars

\* C40, amended: the same for the cycle counts below 256 * 1024.
C40_SmallestPrescalerWhenOneFits ==
    [][(SetFrequencyStep /\ bz_call'.cycles < RESOLUTION * 1024) =>
        SmallestPrescalerWritten(bz_call'.cycles)]_vars

\* C40: 40 Hz was requested, 200000 cycles, and the prescaler 1024 was
\* written with TOP = 195.
C40_Witness ==
    /\ bz_call.op = "set_frequency"
    /\ bz_call.cycles = 200000
    /\ prescaler_bits = PRESCALER_1024
    /\ tccr2b = WGM22 + PRESCALER_1024
    /\ ocr2a = 195

====
